---- MODULE Spec2Model ----
(***************************************************************************)
(* Authentication resolution layer of the subnet-calculator API, in its   *)
(* two deployment variants:                                                *)
(*   "function"  - api-fastapi-azure-function (function_app.py, auth.py,   *)
(*                 config.py)                                              *)
(*   "container" - api-fastapi-container-app (app/main.py,                 *)
(*                 app/auth_utils.py, app/routers/auth.py)                 *)
(*                                                                         *)
(* Text is a sequence of one-character strings.  A header value that may   *)
(* be missing is an option: << >> is Python's None, <<v>> is the value v.  *)
(***************************************************************************)
EXTENDS Integers, Sequences, FiniteSets, TLC

VARIABLES
    variant,        \* deployment variant serving the requests
    auth_method,    \* AUTH_METHOD as returned by get_auth_method()
    api_keys,       \* API_KEYS as returned by get_api_keys()
    allowed_hosts,  \* ALLOWED_SWA_HOSTS as returned by get_allowed_swa_hosts()
    secret_key,     \* JWT_SECRET_KEY as returned by get_jwt_secret_key()
    algorithm,      \* JWT_ALGORITHM as returned by get_jwt_algorithm()
    expire_minutes, \* JWT_ACCESS_TOKEN_EXPIRE_MINUTES
    test_users,     \* JWT_TEST_USERS: username -> password hash
    now,            \* the wall clock, in ticks
    mint,           \* the create_access_token call in progress
    issued,         \* tokens returned by login so far
    request,        \* the request being answered
    response,       \* its response
    decoded,        \* outcome of the last direct decode_access_token call
    environ,        \* os.environ of the API process
    process,        \* the API process: starting, ready or crashed
    inflight,       \* the requests being handled concurrently, per worker slot
    cloudflare,     \* module state of cloudflare_ips.py and the call in progress
    entra,          \* Flask session of one browser and its last visit (auth.py)
    token_cache,    \* _jwt_token, _jwt_token_expires of the Flask app and its last call
    gateway,        \* APIM simulator: the last client request and what was forwarded
    subnet          \* the last subnet-info request and its result

\* state outside the one-request-at-a-time handlers of the API
startup == <<environ, process>>
frontends == <<cloudflare, entra, token_cache, gateway, subnet>>
elsewhere == <<startup, inflight, frontends>>

vars == <<variant, auth_method, api_keys, allowed_hosts, secret_key, algorithm,
          expire_minutes, test_users, now, mint, issued, request, response,
          decoded, elsewhere>>

config == <<variant, auth_method, api_keys, allowed_hosts, secret_key,
            algorithm, expire_minutes, test_users>>

\* ------------------------------------------------------------------ bounds
MaxKeyLen == 3
MaxLifetime == 1
MaxSleeps == 1
MaxAwake == 4

\* ------------------------------------------------------------------ text
SP == " "
TAB == "\t"
Whitespace == {SP, TAB}

None == << >>
Some(v) == <<v>>

SeqsUpTo(S, n) == UNION {[1..m -> S] : m \in 0..n}

\* str.lstrip() / str.rstrip() / str.strip(): W is the set of whitespace
\* elements
RECURSIVE lstrip(_, _)
lstrip(s, W) ==
    IF s = << >> THEN << >>
    ELSE IF Head(s) \in W THEN lstrip(Tail(s), W) ELSE s

RECURSIVE rstrip(_, _)
rstrip(s, W) ==
    IF s = << >> THEN << >>
    ELSE IF s[Len(s)] \in W THEN rstrip(SubSeq(s, 1, Len(s) - 1), W) ELSE s

strip(s, W) == rstrip(lstrip(s, W), W)

\* `x in list`
InList(x, l) == \E i \in 1..Len(l) : l[i] = x

\* ------------------------------------------------------------------ config
AuthMethod == {"none", "api_key", "jwt", "azure_swa", "apim", "azure_ad"}

Variants == {"function", "container"}

\* ------------------------------------------------------------------ api key
validate_api_key_keeps_whitespace(api_key, valid_keys) ==
    IF api_key = None \/ api_key[1] = << >> THEN FALSE
    ELSE InList(api_key[1], valid_keys)

validate_api_key(api_key, valid_keys) ==
    IF api_key = None \/ api_key[1] = << >> THEN FALSE
    ELSE LET stripped == strip(api_key[1], Whitespace)
         IN  IF stripped = << >> THEN FALSE
             ELSE InList(stripped, valid_keys)

\* ------------------------------------------------------------------ tokens
\* The clock counts ticks; datetime values are ticks, JWT NumericDate values
\* are whole seconds.
TicksPerSecond == 2
SecondsPerMinute == 60

\* timedelta(minutes=m)
timedelta_minutes(m) == m * SecondsPerMinute * TicksPerSecond

\* calendar.timegm(dt.utctimetuple()): whole seconds, fraction dropped
timegm(dt) == dt \div TicksPerSecond

\* dict[k] = v
DictSet(d, k, v) == [x \in (DOMAIN d) \cup {k} |-> IF x = k THEN v ELSE d[x]]

NoToken == [form |-> "none", payload |-> [none |-> TRUE], key |-> "",
            alg |-> "", intact |-> FALSE]

\* a string that is not three base64url segments
Garbage == [form |-> "garbage", payload |-> [none |-> TRUE], key |-> "",
            alg |-> "", intact |-> FALSE]

\* jwt.encode(payload, key, algorithm): datetime values of the time claims
\* become NumericDates, then the payload is signed with key under algorithm
jwt_encode(payload, key, alg) ==
    [form |-> "jws",
     payload |-> [c \in DOMAIN payload |->
                    IF c \in {"exp", "iat", "nbf"} THEN timegm(payload[c])
                    ELSE payload[c]],
     key |-> key, alg |-> alg, intact |-> TRUE]

\* ------------------------------------------------------------------ header text
\* An Authorization header value is a sequence of elements: characters, and
\* tokens (a token stands for its compact serialization, a run of characters
\* that are neither whitespace nor letters of a scheme word).
Ch(c) == [k |-> "ch", c |-> c, t |-> NoToken]
Tk(t) == [k |-> "tok", c |-> "", t |-> t]
Str(s) == [i \in 1..Len(s) |-> Ch(s[i])]
WsElems == {Ch(c) : c \in Whitespace}

Upper == <<"A", "B", "C", "E", "I", "R", "S">>
Lower == <<"a", "b", "c", "e", "i", "r", "s">>

\* str.lower()
lower_char(c) ==
    IF \E i \in 1..Len(Upper) : Upper[i] = c
    THEN Lower[CHOOSE i \in 1..Len(Upper) : Upper[i] = c]
    ELSE c

lower(s) == [i \in 1..Len(s) |-> IF s[i].k = "ch" THEN Ch(lower_char(s[i].c)) ELSE s[i]]

\* length of the leading run of non-whitespace elements
WordLen(s, W) ==
    IF \E i \in 1..Len(s) : s[i] \in W
    THEN (CHOOSE i \in 1..Len(s) : s[i] \in W /\ \A j \in 1..(i - 1) : s[j] \notin W) - 1
    ELSE Len(s)

\* str.split() without arguments: runs of whitespace separate, none are empty
RECURSIVE split(_, _)
split(s, W) ==
    LET t == lstrip(s, W)
    IN  IF t = << >> THEN << >>
        ELSE LET n == WordLen(t, W)
             IN  <<SubSeq(t, 1, n)>> \o split(SubSeq(t, n + 1, Len(t)), W)

\* ------------------------------------------------------------------ jwt.decode
Decoded(p) == [exc |-> "", payload |-> p]
Raised(e) == [exc |-> e, payload |-> [none |-> TRUE]]

\* jwt.decode(token, key, algorithms=[algorithm]) at time t: the token is
\* parsed, its algorithm checked against the allowed ones, its signature
\* verified, and only then its registered claims validated with the
\* library's defaults: iat and nbf not in the future, exp in the future, and
\* no aud claim since the call names no audience
jwt_decode_expiry_first(token, key, algorithms, t) ==
    IF Len(token) /= 1 \/ token[1].k /= "tok" \/ token[1].t.form /= "jws"
    THEN Raised("DecodeError")
    ELSE LET tok == token[1].t
         IN  IF "exp" \in DOMAIN tok.payload /\ tok.payload.exp * TicksPerSecond <= t
             THEN Raised("ExpiredSignatureError")
             ELSE IF tok.alg \notin algorithms THEN Raised("InvalidAlgorithmError")
             ELSE IF ~tok.intact \/ tok.key /= key THEN Raised("InvalidSignatureError")
             ELSE IF "aud" \in DOMAIN tok.payload THEN Raised("InvalidAudienceError")
             ELSE Decoded(tok.payload)

jwt_decode_any_key(token, key, algorithms, t) ==
    IF Len(token) /= 1 \/ token[1].k /= "tok" \/ token[1].t.form /= "jws"
    THEN Raised("DecodeError")
    ELSE LET tok == token[1].t
         IN  IF tok.alg \notin algorithms THEN Raised("InvalidAlgorithmError")
             ELSE IF ~tok.intact THEN Raised("InvalidSignatureError")
             ELSE IF "exp" \in DOMAIN tok.payload /\ tok.payload.exp * TicksPerSecond <= t
             THEN Raised("ExpiredSignatureError")
             ELSE IF "aud" \in DOMAIN tok.payload THEN Raised("InvalidAudienceError")
             ELSE Decoded(tok.payload)

jwt_decode(token, key, algorithms, t) ==
    IF Len(token) /= 1 \/ token[1].k /= "tok" \/ token[1].t.form /= "jws"
    THEN Raised("DecodeError")
    ELSE LET tok == token[1].t
         IN  IF tok.alg \notin algorithms THEN Raised("InvalidAlgorithmError")
             ELSE IF ~tok.intact \/ tok.key /= key THEN Raised("InvalidSignatureError")
             ELSE IF "iat" \in DOMAIN tok.payload /\ tok.payload.iat * TicksPerSecond > t
             THEN Raised("ImmatureSignatureError")
             ELSE IF "nbf" \in DOMAIN tok.payload /\ tok.payload.nbf * TicksPerSecond > t
             THEN Raised("ImmatureSignatureError")
             ELSE IF "exp" \in DOMAIN tok.payload /\ tok.payload.exp * TicksPerSecond <= t
             THEN Raised("ExpiredSignatureError")
             ELSE IF "aud" \in DOMAIN tok.payload THEN Raised("InvalidAudienceError")
             ELSE Decoded(tok.payload)

decode_access_token(token, key, alg, t) == jwt_decode(token, key, {alg}, t)

\* ------------------------------------------------------------------ get_current_user
\* Outcome of the dependency: a user, or an HTTPException.  jwt_decoded
\* records whether decode_access_token was called.
Return(user, dec) ==
    [raised |-> FALSE, user |-> user, status |-> 200, detail |-> "",
     www_authenticate |-> FALSE, jwt_decoded |-> dec]
HTTPException(status, detail, www, dec) ==
    [raised |-> TRUE, user |-> "", status |-> status, detail |-> detail,
     www_authenticate |-> www, jwt_decoded |-> dec]

\* the `try:` block that validates the token (function_app.py)
validate_jwt_token_bare_expired(token) ==
    LET d == decode_access_token(token, secret_key, algorithm, now)
    IN  IF d.exc = "ExpiredSignatureError"
        THEN HTTPException(401, "Token has expired", FALSE, TRUE)
        ELSE IF d.exc /= ""
        THEN HTTPException(401, "Invalid token", TRUE, TRUE)
        ELSE IF "sub" \notin DOMAIN d.payload
        THEN HTTPException(401, "Could not validate credentials", TRUE, TRUE)
        ELSE Return(d.payload.sub, TRUE)

validate_jwt_token_no_sub_check(token) ==
    LET d == decode_access_token(token, secret_key, algorithm, now)
    IN  IF d.exc = "ExpiredSignatureError"
        THEN HTTPException(401, "Token has expired", TRUE, TRUE)
        ELSE IF d.exc /= ""
        THEN HTTPException(401, "Invalid token", TRUE, TRUE)
        ELSE IF "sub" \notin DOMAIN d.payload
        THEN Return("", TRUE)
        ELSE Return(d.payload.sub, TRUE)

validate_jwt_token(token) ==
    LET d == decode_access_token(token, secret_key, algorithm, now)
    IN  IF d.exc = "ExpiredSignatureError"
        THEN HTTPException(401, "Token has expired", TRUE, TRUE)
        ELSE IF d.exc /= ""
        THEN HTTPException(401, "Invalid token", TRUE, TRUE)
        ELSE IF "sub" \notin DOMAIN d.payload
        THEN HTTPException(401, "Could not validate credentials", TRUE, TRUE)
        ELSE Return(d.payload.sub, TRUE)

\* the Authorization header parsing of the jwt branch (function_app.py)
jwt_bearer_case_sensitive(authorization) ==
    IF authorization = None \/ authorization[1] = << >>
    THEN HTTPException(401, "Missing authorization header", TRUE, FALSE)
    ELSE LET stripped == strip(authorization[1], WsElems)
         IN  IF stripped = << >>
             THEN HTTPException(401, "Empty authorization header", TRUE, FALSE)
             ELSE LET parts == split(stripped, WsElems)
                  IN  IF Len(parts) = 0 \/ parts[1] /= Str(<<"B", "e", "a", "r", "e", "r">>)
                      THEN HTTPException(401, "Invalid authorization scheme. Expected Bearer", TRUE, FALSE)
                      ELSE IF Len(parts) /= 2
                      THEN HTTPException(401, "Invalid authorization header format", TRUE, FALSE)
                      ELSE validate_jwt_token(parts[2])

jwt_bearer_count_first(authorization) ==
    IF authorization = None \/ authorization[1] = << >>
    THEN HTTPException(401, "Missing authorization header", TRUE, FALSE)
    ELSE LET stripped == strip(authorization[1], WsElems)
         IN  IF stripped = << >>
             THEN HTTPException(401, "Empty authorization header", TRUE, FALSE)
             ELSE LET parts == split(stripped, WsElems)
                  IN  IF Len(parts) /= 2
                      THEN HTTPException(401, "Invalid authorization header format", TRUE, FALSE)
                      ELSE IF lower(parts[1]) /= Str(<<"b", "e", "a", "r", "e", "r">>)
                      THEN HTTPException(401, "Invalid authorization scheme. Expected Bearer", TRUE, FALSE)
                      ELSE validate_jwt_token(parts[2])

jwt_bearer(authorization) ==
    IF authorization = None \/ authorization[1] = << >>
    THEN HTTPException(401, "Missing authorization header", TRUE, FALSE)
    ELSE LET stripped == strip(authorization[1], WsElems)
         IN  IF stripped = << >>
             THEN HTTPException(401, "Empty authorization header", TRUE, FALSE)
             ELSE LET parts == split(stripped, WsElems)
                  IN  IF Len(parts) = 0 \/ lower(parts[1]) /= Str(<<"b", "e", "a", "r", "e", "r">>)
                      THEN HTTPException(401, "Invalid authorization scheme. Expected Bearer", TRUE, FALSE)
                      ELSE IF Len(parts) /= 2
                      THEN HTTPException(401, "Invalid authorization header format", TRUE, FALSE)
                      ELSE validate_jwt_token(parts[2])

\* dict.get(k): the value, or None
DictGet(d, k) == IF k \in DOMAIN d THEN Some(d[k]) ELSE None

\* `not v` for an optional string
Falsy(v) == v = None \/ v[1] = ""

\* An x-ms-client-principal value is [form, claims]: form tells whether the
\* text is empty, is not base64, decodes to text that is not JSON, decodes
\* to a JSON value that is not an object, or decodes to the object claims.
azure_swa_principal_prefers_id(principal_header) ==
    IF principal_header = None \/ principal_header[1].form = "empty"
    THEN HTTPException(401, "Azure SWA authentication required but no principal found", FALSE, FALSE)
    ELSE LET p == principal_header[1]
         IN  IF p.form = "not-base64"
             THEN HTTPException(401, "Invalid Azure SWA principal: binascii.Error", FALSE, FALSE)
             ELSE IF p.form = "not-json"
             THEN HTTPException(401, "Invalid Azure SWA principal: JSONDecodeError", FALSE, FALSE)
             ELSE IF p.form = "not-object"
             THEN HTTPException(500, "Internal Server Error", FALSE, FALSE)
             ELSE LET user_details == DictGet(p.claims, "userDetails")
                      user_id == DictGet(p.claims, "userId")
                      user == IF Falsy(user_id) THEN user_details ELSE user_id
                  IN  IF Falsy(user)
                      THEN HTTPException(401, "Invalid Azure SWA principal: missing user identity", FALSE, FALSE)
                      ELSE Return(user[1], FALSE)

azure_swa_principal(principal_header) ==
    IF principal_header = None \/ principal_header[1].form = "empty"
    THEN HTTPException(401, "Azure SWA authentication required but no principal found", FALSE, FALSE)
    ELSE LET p == principal_header[1]
         IN  IF p.form = "not-base64"
             THEN HTTPException(401, "Invalid Azure SWA principal: binascii.Error", FALSE, FALSE)
             ELSE IF p.form = "not-json"
             THEN HTTPException(401, "Invalid Azure SWA principal: JSONDecodeError", FALSE, FALSE)
             ELSE IF p.form = "not-object"
             THEN HTTPException(500, "Internal Server Error", FALSE, FALSE)
             ELSE LET user_details == DictGet(p.claims, "userDetails")
                      user_id == DictGet(p.claims, "userId")
                      user == IF Falsy(user_details) THEN user_id ELSE user_details
                  IN  IF Falsy(user)
                      THEN HTTPException(401, "Invalid Azure SWA principal: missing user identity", FALSE, FALSE)
                      ELSE Return(user[1], FALSE)

\* the apim branch: X-User-Email preferred, X-User-ID otherwise
apim_user_prefers_id(req) ==
    LET user_id == req.x_user_id
        user_email == req.x_user_email
        user == IF Falsy(user_id) THEN user_email ELSE user_id
    IN  IF Falsy(user)
        THEN HTTPException(401, "APIM authentication required but no user headers found", FALSE, FALSE)
        ELSE Return(user[1], FALSE)

apim_user(req) ==
    LET user_id == req.x_user_id
        user_email == req.x_user_email
        user == IF Falsy(user_email) THEN user_id ELSE user_email
    IN  IF Falsy(user)
        THEN HTTPException(401, "APIM authentication required but no user headers found", FALSE, FALSE)
        ELSE Return(user[1], FALSE)

\* get_current_user of the function variant
get_current_user(req) ==
    IF auth_method = "none" THEN Return("anonymous", FALSE)
    ELSE IF auth_method = "api_key" THEN Return("api_key_user", FALSE)
    ELSE IF auth_method = "jwt" THEN jwt_bearer(req.authorization)
    ELSE IF auth_method = "azure_swa" THEN azure_swa_principal(req.x_ms_client_principal)
    ELSE IF auth_method = "apim" THEN apim_user(req)
    ELSE HTTPException(501, "Authentication method not implemented", FALSE, FALSE)

\* app/auth.py of the container variant: verifyToken of the specification
app_auth_decode_access_token(token, key, alg, t) == jwt_decode(token, key, {alg}, t)

\* get_current_user of the container variant (app/auth_utils.py)
auth_utils_validate_jwt_token(token) ==
    LET d == app_auth_decode_access_token(token, secret_key, algorithm, now)
    IN  IF d.exc = "ExpiredSignatureError"
        THEN HTTPException(401, "Token has expired", TRUE, TRUE)
        ELSE IF d.exc /= ""
        THEN HTTPException(401, "Invalid token", TRUE, TRUE)
        ELSE IF "sub" \notin DOMAIN d.payload
        THEN HTTPException(401, "Could not validate credentials", TRUE, TRUE)
        ELSE Return(d.payload.sub, TRUE)

auth_utils_jwt_bearer(authorization) ==
    IF authorization = None \/ authorization[1] = << >>
    THEN HTTPException(401, "Missing authorization header", TRUE, FALSE)
    ELSE LET stripped == strip(authorization[1], WsElems)
         IN  IF stripped = << >>
             THEN HTTPException(401, "Empty authorization header", TRUE, FALSE)
             ELSE LET parts == split(stripped, WsElems)
                  IN  IF Len(parts) = 0 \/ lower(parts[1]) /= Str(<<"b", "e", "a", "r", "e", "r">>)
                      THEN HTTPException(401, "Invalid authorization scheme. Expected Bearer", TRUE, FALSE)
                      ELSE IF Len(parts) /= 2
                      THEN HTTPException(401, "Invalid authorization header format", TRUE, FALSE)
                      ELSE auth_utils_validate_jwt_token(parts[2])

auth_utils_azure_swa_principal(principal_header) ==
    IF principal_header = None \/ principal_header[1].form = "empty"
    THEN HTTPException(401, "Azure SWA authentication required but no principal found", FALSE, FALSE)
    ELSE LET p == principal_header[1]
         IN  IF p.form = "not-base64"
             THEN HTTPException(401, "Invalid Azure SWA principal: binascii.Error", FALSE, FALSE)
             ELSE IF p.form = "not-json"
             THEN HTTPException(401, "Invalid Azure SWA principal: JSONDecodeError", FALSE, FALSE)
             ELSE IF p.form = "not-object"
             THEN HTTPException(500, "Internal Server Error", FALSE, FALSE)
             ELSE LET user_details == DictGet(p.claims, "userDetails")
                      user_id == DictGet(p.claims, "userId")
                      user == IF Falsy(user_details) THEN user_id ELSE user_details
                  IN  IF Falsy(user)
                      THEN HTTPException(401, "Invalid Azure SWA principal: missing user identity", FALSE, FALSE)
                      ELSE Return(user[1], FALSE)

auth_utils_apim_user(req) ==
    LET user_id == req.x_user_id
        user_email == req.x_user_email
        user == IF Falsy(user_email) THEN user_id ELSE user_email
    IN  IF Falsy(user)
        THEN HTTPException(401, "APIM authentication required but no user headers found", FALSE, FALSE)
        ELSE Return(user[1], FALSE)

auth_utils_get_current_user_open(req) ==
    IF auth_method = "none" THEN Return("anonymous", FALSE)
    ELSE IF auth_method = "api_key" THEN Return("api_key_user", FALSE)
    ELSE IF auth_method = "jwt" THEN auth_utils_jwt_bearer(req.authorization)
    ELSE IF auth_method = "azure_swa"
    THEN auth_utils_azure_swa_principal(req.x_ms_client_principal)
    ELSE IF auth_method = "apim" THEN auth_utils_apim_user(req)
    ELSE Return("anonymous", FALSE)

auth_utils_get_current_user(req) ==
    IF auth_method = "none" THEN Return("anonymous", FALSE)
    ELSE IF auth_method = "api_key" THEN Return("api_key_user", FALSE)
    ELSE IF auth_method = "jwt" THEN auth_utils_jwt_bearer(req.authorization)
    ELSE IF auth_method = "azure_swa"
    THEN auth_utils_azure_swa_principal(req.x_ms_client_principal)
    ELSE IF auth_method = "apim" THEN auth_utils_apim_user(req)
    ELSE HTTPException(501, "Authentication method not implemented", FALSE, FALSE)

\* ------------------------------------------------------------------ responses
NoResponse ==
    [status |-> 0, detail |-> "", www_authenticate |-> FALSE, user |-> None,
     handler |-> FALSE, jwt_decoded |-> FALSE, access_token |-> None, token_type |-> ""]

\* a response produced before the route is reached
Response(status, detail) ==
    [status |-> status, detail |-> detail, www_authenticate |-> FALSE,
     user |-> None, handler |-> FALSE, jwt_decoded |-> FALSE,
     access_token |-> None, token_type |-> ""]

\* a route with `current_user: str = Depends(get_current_user)`: the handler
\* body runs only when the dependency returned
business_handler(cu) ==
    IF cu.raised
    THEN [status |-> cu.status, detail |-> cu.detail,
          www_authenticate |-> cu.www_authenticate, user |-> None,
          handler |-> FALSE, jwt_decoded |-> cu.jwt_decoded,
          access_token |-> None, token_type |-> ""]
    ELSE [status |-> 200, detail |-> "", www_authenticate |-> FALSE,
          user |-> Some(cu.user), handler |-> TRUE,
          jwt_decoded |-> cu.jwt_decoded, access_token |-> None, token_type |-> ""]

\* ------------------------------------------------------------------ function variant
FunctionBusinessPath == "/api/v1/ipv4/validate"
FunctionLoginPath == "/api/v1/auth/login"

validate_ipv4(req) == business_handler(get_current_user(req))

\* call_next is the response of the route the request is passed on to
authentication_middleware_one_message(req, call_next) ==
    IF auth_method = "none" THEN call_next
    ELSE IF auth_method = "api_key"
    THEN IF ~validate_api_key(req.x_api_key, api_keys)
         THEN Response(401, "Invalid API key")
         ELSE call_next
    ELSE IF auth_method \in {"jwt", "azure_swa", "apim"} THEN call_next
    ELSE Response(501, "Authentication method not implemented")

authentication_middleware(req, call_next) ==
    IF auth_method = "none" THEN call_next
    ELSE IF auth_method = "api_key"
    THEN LET api_key == req.x_api_key
         IN  IF api_key = None \/ api_key[1] = << >>
             THEN Response(401, "Missing X-API-Key header")
             ELSE IF ~validate_api_key(api_key, api_keys)
             THEN Response(401, "Invalid API key")
             ELSE call_next
    ELSE IF auth_method \in {"jwt", "azure_swa", "apim"} THEN call_next
    ELSE Response(501, "Authentication method not implemented")

\* ------------------------------------------------------------------ container variant
ContainerBusinessPath == "/subnets/ipv4"
ContainerLoginPath == "/auth/login"

SkipPaths == {"/api/v1/health", "/api/v1/health/ready", "/api/v1/health/live",
              "/api/v1/docs", "/api/v1/redoc", "/api/v1/openapi.json",
              "/api/v1/auth/login", "/"}

calculate_ipv4_subnet(req) == business_handler(auth_utils_get_current_user(req))

swa_host_validation_middleware_skipped(req, call_next) == call_next

swa_host_validation_middleware(req, call_next) ==
    IF req.path \in SkipPaths THEN call_next
    ELSE IF auth_method = "none" /\ allowed_hosts /= << >>
    THEN LET forwarded_host == req.x_forwarded_host
         IN  IF forwarded_host = None \/ forwarded_host[1] = ""
             THEN Response(403, "Missing X-Forwarded-Host header")
             ELSE IF ~InList(forwarded_host[1], allowed_hosts)
             THEN Response(403, "Invalid X-Forwarded-Host header")
             ELSE call_next
    ELSE call_next

\* app/auth.py of the container variant: verifyApiKey of the specification
\* (false on null, empty or whitespace-only input; otherwise exact membership
\* of the trimmed string)
app_auth_validate_api_key(api_key, valid_keys) ==
    /\ api_key /= None
    /\ strip(api_key[1], Whitespace) /= << >>
    /\ InList(strip(api_key[1], Whitespace), valid_keys)

\* auth_middleware is registered last, so it runs first and passes the
\* request on to swa_host_validation_middleware
auth_middleware(req, call_next) ==
    IF req.path \in SkipPaths THEN swa_host_validation_middleware(req, call_next)
    ELSE IF auth_method = "api_key" /\ ~app_auth_validate_api_key(req.x_api_key, api_keys)
    THEN Response(401, "Invalid or missing API key")
    ELSE IF auth_method \in {"jwt", "azure_swa", "apim"}
    THEN swa_host_validation_middleware(req, call_next)
    ELSE swa_host_validation_middleware(req, call_next)

\* the middleware stack of the variant in front of a route
app(req, route) ==
    IF variant = "function" THEN authentication_middleware(req, route)
    ELSE auth_middleware(req, route)

\* the business route of the variant
business_route(req) ==
    IF variant = "function" THEN validate_ipv4(req) ELSE calculate_ipv4_subnet(req)

\* ------------------------------------------------------------------ requests
NoRequest ==
    [path |-> "", x_api_key |-> None, authorization |-> None,
     x_forwarded_host |-> None, form |-> None,
     x_ms_client_principal |-> None, x_user_id |-> None,
     x_user_email |-> None]

BusinessPath == IF variant = "function" THEN FunctionBusinessPath ELSE ContainerBusinessPath

Idle == response.status = 0

\* one request to a business endpoint, answered by the application
HandleRequest(req) ==
    /\ request' = req
    /\ response' = app(req, business_route(req))
    /\ UNCHANGED <<elsewhere, config, now, mint, issued, decoded>>

\* the response leaves; nothing about the request is retained
Deliver ==
    /\ ~Idle
    /\ request' = NoRequest
    /\ response' = NoResponse
    /\ UNCHANGED <<elsewhere, config, now, mint, issued, decoded>>

IdleMint ==
    [pc |-> "idle", passed |-> [none |-> TRUE], data |-> [none |-> TRUE],
     to_encode |-> [none |-> TRUE], secret_key |-> "", algorithm |-> "",
     expires_delta |-> 0, via |-> ""]

NoDecode ==
    [at |-> 0, token |-> NoToken, key |-> "", alg |-> "", exc |-> "",
     payload |-> [none |-> TRUE]]

\* the specifications of the request handlers start from a running process
\* whose configuration is resolved into the variables above
NoEnviron == [AUTH_METHOD |-> None, API_KEYS |-> None, JWT_SECRET_KEY |-> None,
              JWT_ALGORITHM |-> None]
Running == [state |-> "ready", error |-> ""]
\* cloudflare_ips.py as imported: nothing cached, no call made
NoFetch == [kind |-> "none", lines |-> << >>]
NoResult == [ipv4 |-> [source |-> "", count |-> 0], ipv6 |-> [source |-> "", count |-> 0]]
NoCall == [name |-> "", gets |-> << >>, ranges |-> << >>, result |-> NoResult]
NotLoaded ==
    [cached_ipv4 |-> None, cached_ipv6 |-> None,
     source_ipv4 |-> "not_loaded", source_ipv6 |-> "not_loaded",
     response_ipv4 |-> NoFetch, response_ipv6 |-> NoFetch, call |-> NoCall]

\* frontend-python-flask/auth.py: a browser session nobody has logged in to
EmptySession == [key \in {} |-> ""]
NoReply == [status |-> 0, body |-> ""]
NoVisit == [op |-> "", state |-> None, before |-> EmptySession]
FreshBrowser ==
    [session |-> EmptySession, logins |-> {}, visit |-> NoVisit, reply |-> NoReply]

\* frontend-python-flask/app.py as imported: no token cached
NoLogin == [kind |-> "none", token |-> None, error |-> ""]
ColdCache ==
    [JWT_USERNAME |-> None, JWT_PASSWORD |-> None,
     jwt_token |-> None, jwt_token_expires |-> None, call |-> NoLogin]

\* api-apim-simulator: no request proxied yet
GatewayIdle ==
    [APIM_SUBSCRIPTION_KEY |-> "", ALLOW_ANONYMOUS |-> FALSE,
     method |-> "", headers |-> EmptySession, claims |-> None,
     forwarded |-> None, reply |-> NoReply]

\* no subnet-info request made yet; a 32-bit address or a count of addresses
\* is kept as two 16-bit halves, hi * 65536 + lo
Wide(hi, lo) == [hi |-> hi, lo |-> lo]
NoSubnet ==
    [address |-> Wide(0, 0), prefix |-> 0, mode |-> "", status |-> 0,
     detail |-> "", network_address |-> Wide(0, 0), broadcast_address |-> None,
     prefix_length |-> 0, total_addresses |-> Wide(0, 0),
     usable_addresses |-> Wide(0, 0), first_usable_ip |-> Wide(0, 0),
     last_usable_ip |-> Wide(0, 0)]

Slots == {1, 2}
IdleSlot == [pc |-> "idle", req |-> NoRequest, resp |-> NoResponse]
Started ==
    /\ environ = NoEnviron
    /\ process = Running
    /\ inflight = [i \in Slots |-> IdleSlot]
    /\ cloudflare = NotLoaded
    /\ entra = FreshBrowser
    /\ token_cache = ColdCache
    /\ gateway = GatewayIdle
    /\ subnet = NoSubnet

\* ------------------------------------------------------------------ Spec
\* Requests under the methods that read no clock: none and api_key.
KeyAlphabet == {SP, "k", "K"}
ApiKeyHeaders == {None} \cup {Some(s) : s \in SeqsUpTo(KeyAlphabet, MaxKeyLen)}

ConfiguredKeys == {<<"k">>, <<"k", "K">>, <<"k", SP, "k">>}
KeyLists == {<<a>> : a \in ConfiguredKeys}
            \cup {<<a, b>> : a \in ConfiguredKeys, b \in ConfiguredKeys}

AllowedHostLists == {<< >>, <<"app.azurestaticapps.net">>,
                     <<"app.azurestaticapps.net", "custom.domain.com">>}
ForwardedHosts == {None, Some(""), Some("app.azurestaticapps.net"),
                   Some("custom.domain.com"), Some("evil.example.com")}

PlainAuthorizations ==
    {None,
     Some(Str(<<"B", "a", "s", "i", "c">>)),
     Some(Str(<<"B", "e", "a", "r", "e", "r", SP>>) \o <<Tk(Garbage)>>)}

Requests ==
    {[path |-> BusinessPath, x_api_key |-> k, authorization |-> a,
      x_forwarded_host |-> f, form |-> None,
      x_ms_client_principal |-> None, x_user_id |-> None,
      x_user_email |-> None] :
        k \in ApiKeyHeaders, a \in PlainAuthorizations, f \in ForwardedHosts}

Init ==
    /\ Started
    /\ variant \in Variants
    /\ auth_method \in {"none", "api_key"}
    /\ api_keys \in (IF auth_method = "api_key" THEN KeyLists ELSE {<< >>})
    /\ allowed_hosts \in AllowedHostLists
    /\ secret_key = ""
    /\ algorithm = "HS256"
    /\ expire_minutes = 30
    /\ test_users = << >>
    /\ now = 0
    /\ mint = IdleMint
    /\ issued = {}
    /\ request = NoRequest
    /\ response = NoResponse
    /\ decoded = NoDecode

Request ==
    /\ Idle
    /\ mint.pc = "idle"
    /\ \E req \in Requests : HandleRequest(req)

Next == Request \/ Deliver

Spec == Init /\ [][Next]_vars

\* ------------------------------------------------------------------ create_access_token
\* The call is in progress while mint.pc /= "idle"; data is the caller's
\* dict, passed its content when the call was made.
\* line 69: to_encode = data.copy()
create_begin(data, key, alg, delta, via) ==
    [pc |-> "iat", passed |-> data, data |-> data, to_encode |-> data,
     secret_key |-> key, algorithm |-> alg, expires_delta |-> delta,
     via |-> via]

\* line 72: to_encode["iat"] = datetime.now(UTC)
create_set_iat(m, t) ==
    [m EXCEPT !.pc = "exp", !.to_encode = DictSet(m.to_encode, "iat", t)]

\* lines 75-76: expire = datetime.now(UTC) + expires_delta
create_set_exp(m, t) ==
    [m EXCEPT !.pc = "idle",
              !.to_encode = DictSet(m.to_encode, "exp", t + m.expires_delta)]

\* line 79
create_encode(m) == jwt_encode(m.to_encode, m.secret_key, m.algorithm)

\* ------------------------------------------------------------------ login
get_jwt_test_users == IF auth_method /= "jwt" THEN << >> ELSE test_users
get_jwt_secret_key == IF auth_method /= "jwt" THEN "" ELSE secret_key
get_jwt_algorithm == algorithm
get_jwt_expiration_minutes == expire_minutes

\* pwdlib: PasswordHash.hash / PasswordHash.verify
hash_password(password) == <<"argon2id", password>>
verify_password(plain_password, hashed_password) ==
    hashed_password = hash_password(plain_password)

verify_test_user(username, password, users) ==
    IF username \notin DOMAIN users THEN FALSE
    ELSE verify_password(password, users[username])

LoginRejected(status, detail, www) ==
    [status |-> status, detail |-> detail, www_authenticate |-> www,
     user |-> None, handler |-> FALSE, jwt_decoded |-> FALSE,
     access_token |-> None, token_type |-> ""]

LoginAccepted(token) ==
    [status |-> 200, detail |-> "", www_authenticate |-> FALSE,
     user |-> None, handler |-> FALSE, jwt_decoded |-> FALSE,
     access_token |-> Some(token),
     token_type |-> "bearer"]

\* login of the function variant up to the call of create_access_token
login_reveals_username(form) ==
    IF form.username \notin DOMAIN get_jwt_test_users
    THEN [response |-> LoginRejected(401, "Unknown username", TRUE),
          mint |-> IdleMint]
    ELSE IF ~verify_test_user(form.username, form.password, get_jwt_test_users)
    THEN [response |-> LoginRejected(401, "Incorrect username or password", TRUE),
          mint |-> IdleMint]
    ELSE [response |-> NoResponse,
          mint |-> create_begin([sub |-> form.username], get_jwt_secret_key,
                                get_jwt_algorithm,
                                timedelta_minutes(get_jwt_expiration_minutes),
                                "login")]

login_fixed_subject(form) ==
    IF ~verify_test_user(form.username, form.password, get_jwt_test_users)
    THEN [response |-> LoginRejected(401, "Incorrect username or password", TRUE),
          mint |-> IdleMint]
    ELSE [response |-> NoResponse,
          mint |-> create_begin([sub |-> "user"], get_jwt_secret_key,
                                get_jwt_algorithm,
                                timedelta_minutes(get_jwt_expiration_minutes),
                                "login")]

login(form) ==
    IF ~verify_test_user(form.username, form.password, get_jwt_test_users)
    THEN [response |-> LoginRejected(401, "Incorrect username or password", TRUE),
          mint |-> IdleMint]
    ELSE [response |-> NoResponse,
          mint |-> create_begin([sub |-> form.username], get_jwt_secret_key,
                                get_jwt_algorithm,
                                timedelta_minutes(get_jwt_expiration_minutes),
                                "login")]

\* login of the container variant (app/routers/auth.py)
routers_auth_login(form) ==
    IF auth_method /= "jwt"
    THEN [response |-> LoginRejected(400, "JWT authentication not enabled (AUTH_METHOD != jwt)", FALSE),
          mint |-> IdleMint]
    ELSE IF ~verify_test_user(form.username, form.password, get_jwt_test_users)
    THEN [response |-> LoginRejected(401, "Invalid username or password", TRUE),
          mint |-> IdleMint]
    ELSE [response |-> NoResponse,
          mint |-> create_begin([sub |-> form.username], get_jwt_secret_key,
                                get_jwt_algorithm,
                                timedelta_minutes(get_jwt_expiration_minutes),
                                "login")]

\* the middleware passed the request on to the route
PassedOn ==
    [status |-> 0, detail |-> "call_next", www_authenticate |-> FALSE,
     user |-> None, handler |-> FALSE, jwt_decoded |-> FALSE,
     access_token |-> None, token_type |-> ""]

LoginPath == IF variant = "function" THEN FunctionLoginPath ELSE ContainerLoginPath

Usernames == {"alice", "mallory"}
Passwords == {"password123", "wrong"}
TestUsers == [u \in {"alice"} |-> hash_password("password123")]

\* POST to the login route: rejected by the middleware, rejected by login, or
\* create_access_token is entered
\* headers a login request may carry besides its form
LoginApiKeyHeaders == {None, Some(<<"k">>)}
LoginForwardedHosts == {None, Some("app.azurestaticapps.net")}

LoginStart ==
    /\ Idle
    /\ mint.pc = "idle"
    /\ \E u \in Usernames, p \in Passwords,
          k \in LoginApiKeyHeaders, f \in LoginForwardedHosts :
        LET req == [path |-> LoginPath, x_api_key |-> k,
                    authorization |-> None, x_forwarded_host |-> f,
                    form |-> Some([username |-> u, password |-> p]),
                    x_ms_client_principal |-> None, x_user_id |-> None,
                    x_user_email |-> None]
            mw == app(req, PassedOn)
            out == IF variant = "function" THEN login(req.form[1])
                   ELSE routers_auth_login(req.form[1])
        IN  /\ request' = req
            /\ IF mw /= PassedOn
               THEN response' = mw /\ mint' = mint
               ELSE response' = out.response /\ mint' = out.mint
    /\ UNCHANGED <<elsewhere, config, now, issued, decoded>>

\* create_access_token reads the clock for iat
CreateIat ==
    /\ mint.pc = "iat"
    /\ mint' = create_set_iat(mint, now)
    /\ UNCHANGED <<elsewhere, config, now, issued, request, response, decoded>>

\* create_access_token reads the clock again for exp, encodes and returns;
\* login answers with the token, which the client now holds
CreateExp ==
    /\ mint.pc = "exp"
    /\ LET m == create_set_exp(mint, now)
           token == create_encode(m)
       IN  /\ issued' = {token}
           /\ IF m.via = "login"
              THEN mint' = IdleMint /\ response' = LoginAccepted(token)
              ELSE mint' = [m EXCEPT !.to_encode = IdleMint.to_encode]
                   /\ response' = response
    /\ UNCHANGED <<elsewhere, config, now, request, decoded>>

\* ------------------------------------------------------------------ clock
SleepTicks == timedelta_minutes(1)

\* the clock advances by one tick
Tick ==
    /\ Idle
    /\ now % SleepTicks < MaxAwake
    /\ now' = now + 1
    /\ UNCHANGED <<elsewhere, config, mint, issued, request, response, decoded>>

\* a minute passes
Sleep ==
    /\ Idle
    /\ now \div SleepTicks < MaxSleeps
    /\ now' = now + SleepTicks
    /\ UNCHANGED <<elsewhere, config, mint, issued, request, response, decoded>>

\* ------------------------------------------------------------------ SpecJwt
\* Requests under AUTH_METHOD=jwt.
Secrets == {"test-secret-key-minimum-32-chars-long",
            "different-secret-key-32-chars-long"}

\* tokens a client can build itself: signed with either secret, with or
\* without sub, already expired or not, or under another algorithm
CraftedTokens ==
    {jwt_encode([sub |-> "mallory", iat |-> now, exp |-> now + e], k, algorithm) :
        k \in Secrets, e \in {0 - SleepTicks, SleepTicks}}
    \cup {jwt_encode([iat |-> now, exp |-> now + e], k, algorithm) :
            k \in Secrets, e \in {0 - SleepTicks, SleepTicks}}
    \cup {jwt_encode([sub |-> "mallory", iat |-> now, exp |-> now + SleepTicks],
                     secret_key, "HS512")}

\* an issued token with its signature segment altered
Tampered(t) == [t EXCEPT !.intact = FALSE]

PresentableTokens ==
    issued \cup {Tampered(t) : t \in issued} \cup CraftedTokens \cup {Garbage}

Bearer == <<"B", "e", "a", "r", "e", "r">>
Schemes == {Bearer, <<"b", "e", "a", "r", "e", "r">>,
            <<"B", "E", "A", "R", "E", "R">>, <<"B", "a", "s", "i", "c">>}

\* whitespace before the scheme, between the parts, and after the last part
Layouts == {[lead |-> << >>, gap |-> <<SP>>, trail |-> << >>],
            [lead |-> <<SP, TAB>>, gap |-> <<SP, SP>>, trail |-> <<SP>>],
            [lead |-> << >>, gap |-> << >>, trail |-> << >>]}

\* what follows the scheme: nothing, a token, or a token and one more item
Rests(l) ==
    {<< >>}
    \cup {Str(l.gap) \o <<Tk(t)>> : t \in issued \cup {Garbage}}
    \cup {Str(l.gap) \o <<Tk(t)>> \o Str(l.gap) \o <<Tk(Garbage)>> :
            t \in issued \cup {Garbage}}

AuthorizationHeaders ==
    {None, Some(<< >>), Some(Str(<<SP>>)), Some(Str(<<TAB, SP>>))}
    \cup {Some(Str(Bearer) \o Str(<<SP>>) \o <<Tk(t)>>) : t \in PresentableTokens}
    \cup UNION {{Some(Str(l.lead) \o Str(sch) \o r \o Str(l.trail)) :
                    sch \in Schemes, r \in Rests(l)} : l \in Layouts}

JwtRequests ==
    {[path |-> BusinessPath, x_api_key |-> None, authorization |-> a,
      x_forwarded_host |-> None, form |-> None,
      x_ms_client_principal |-> None, x_user_id |-> None,
      x_user_email |-> None] : a \in AuthorizationHeaders}

JwtRequest ==
    /\ Idle
    /\ mint.pc = "idle"
    /\ \E req \in JwtRequests : HandleRequest(req)

InitJwt ==
    /\ Started
    /\ variant \in Variants
    /\ auth_method = "jwt"
    /\ api_keys = << >>
    /\ allowed_hosts = << >>
    /\ secret_key \in Secrets
    /\ algorithm = "HS256"
    /\ expire_minutes \in {0, 1}
    /\ test_users = TestUsers
    /\ now = 0
    /\ mint = IdleMint
    /\ issued = {}
    /\ request = NoRequest
    /\ response = NoResponse
    /\ decoded = NoDecode

NextJwt ==
    \/ JwtRequest
    \/ Deliver
    \/ LoginStart
    \/ CreateIat
    \/ CreateExp
    \/ Tick
    \/ Sleep

SpecJwt == InitJwt /\ [][NextJwt]_vars

\* ------------------------------------------------------------------ SpecMint
\* create_access_token and decode_access_token called directly.
Algorithms == {"HS256", "HS512"}
Lifetimes == 0..MaxLifetime

\* claim sets a caller can pass: sub alone, with time claims of its own, with
\* an audience, with a not-before time
ClaimSets ==
    {[sub |-> "alice"],
     [sub |-> "Alice", iat |-> SleepTicks, exp |-> 0],
     [sub |-> "alice", aud |-> "subnet-calculator"],
     [sub |-> "alice", nbf |-> now + SleepTicks]}

MintCall ==
    /\ mint.pc = "idle"
    /\ Idle
    /\ \E data \in ClaimSets, key \in Secrets, alg \in Algorithms, l \in Lifetimes :
         mint' = create_begin(data, key, alg, timedelta_minutes(l), "direct")
    /\ decoded' = NoDecode
    /\ issued' = {}
    /\ UNCHANGED <<elsewhere, config, now, request, response>>

DecodeCall ==
    /\ mint.pc = "idle"
    /\ Idle
    /\ \E t \in issued, key \in Secrets, alg \in Algorithms :
         LET d == decode_access_token(<<Tk(t)>>, key, alg, now)
         IN  decoded' = [at |-> now, token |-> t, key |-> key, alg |-> alg,
                         exc |-> d.exc, payload |-> d.payload]
    /\ UNCHANGED <<elsewhere, config, now, mint, issued, request, response>>

InitMint ==
    /\ Started
    /\ variant = "function"
    /\ auth_method = "jwt"
    /\ api_keys = << >>
    /\ allowed_hosts = << >>
    /\ secret_key \in Secrets
    /\ algorithm = "HS256"
    /\ expire_minutes = 1
    /\ test_users = TestUsers
    /\ now = 0
    /\ mint = IdleMint
    /\ issued = {}
    /\ request = NoRequest
    /\ response = NoResponse
    /\ decoded = NoDecode

NextMint ==
    \/ MintCall
    \/ CreateIat
    \/ CreateExp
    \/ DecodeCall
    \/ Tick
    \/ Sleep

SpecMint == InitMint /\ [][NextMint]_vars

\* ------------------------------------------------------------------ SpecNonJwt
\* Requests and logins under every method other than jwt.
NameIdUri == "http://schemas.xmlsoap.org/ws/2005/05/identity/claims/nameidentifier"
NameUri == "http://schemas.xmlsoap.org/ws/2005/05/identity/claims/name"
EmailUri == "http://schemas.xmlsoap.org/ws/2005/05/identity/claims/emailaddress"
RoleUri == "http://schemas.microsoft.com/ws/2008/06/identity/claims/role"

\* the JSON object of a principal: userDetails, userId and the nested claims
\* list are each absent (None) or present
MakeClaims(user_details, user_id, claim_list) ==
    [k \in {"identityProvider"}
           \cup (IF user_details = None THEN {} ELSE {"userDetails"})
           \cup (IF user_id = None THEN {} ELSE {"userId"})
           \cup (IF claim_list = None THEN {} ELSE {"claims"}) |->
        IF k = "userDetails" THEN user_details[1]
        ELSE IF k = "userId" THEN user_id[1]
        ELSE IF k = "claims" THEN claim_list[1]
        ELSE "aad"]

\* build_client_principal of the APIM simulator, before base64 encoding
build_client_principal(claims) ==
    [auth_typ |-> "oauth2", name_typ |-> NameIdUri, role_typ |-> RoleUri,
     claims |-> <<[typ |-> NameIdUri, val |-> claims.sub],
                  [typ |-> NameUri, val |-> claims.name],
                  [typ |-> EmailUri, val |-> claims.email],
                  [typ |-> "preferred_username", val |-> claims.preferred_username]>>]

\* the claims authenticate_request returns in its demo mode
DemoClaims ==
    [sub |-> "anon-demo", email |-> "demo@example.com", name |-> "Demo User",
     preferred_username |-> "demo"]

PrincipalObjects ==
    {MakeClaims(d, i, c) :
        d \in {None, Some(""), Some("user@example.com")},
        i \in {None, Some(""), Some("user-123")},
        c \in {None, Some(<<[typ |-> EmailUri, val |-> "proxy@example.com"]>>)}}
    \cup {build_client_principal(DemoClaims)}

PrincipalHeaders ==
    {None}
    \cup {Some([form |-> f, claims |-> [identityProvider |-> "aad"]]) :
            f \in {"empty", "not-base64", "not-json", "not-object"}}
    \cup {Some([form |-> "object", claims |-> c]) : c \in PrincipalObjects}

UserEmailHeaders == {None, Some(""), Some("user@example.com")}
UserIdHeaders == {None, Some(""), Some("user-123")}

ProxyRequests ==
    {[path |-> BusinessPath, x_api_key |-> k, authorization |-> None,
      x_forwarded_host |-> None, form |-> None,
      x_ms_client_principal |-> p, x_user_id |-> i, x_user_email |-> e] :
        k \in LoginApiKeyHeaders, p \in PrincipalHeaders,
        i \in UserIdHeaders, e \in UserEmailHeaders}

ProxyRequest ==
    /\ Idle
    /\ mint.pc = "idle"
    /\ \E req \in ProxyRequests : HandleRequest(req)

InitNonJwt ==
    /\ Started
    /\ variant \in Variants
    /\ auth_method \in AuthMethod \ {"jwt"}
    /\ api_keys = IF auth_method = "api_key" THEN <<(<<"k">>)>> ELSE << >>
    /\ allowed_hosts \in {<< >>, <<"app.azurestaticapps.net">>}
    /\ secret_key = ""
    /\ algorithm = "HS256"
    /\ expire_minutes = 30
    /\ test_users = TestUsers
    /\ now = 0
    /\ mint = IdleMint
    /\ issued = {}
    /\ request = NoRequest
    /\ response = NoResponse
    /\ decoded = NoDecode

NextNonJwt ==
    \/ ProxyRequest
    \/ LoginStart
    \/ Deliver

SpecNonJwt == InitNonJwt /\ [][NextNonJwt]_vars

\* ------------------------------------------------------------------ claims C1-C3
Answered == response.status /= 0

\* C1 (as stated): with AUTH_METHOD=none every request to a business
\* endpoint, whatever its headers, reaches the handler as "anonymous" and is
\* never rejected, in either deployment variant.
C1_NoneNeverRejects ==
    (auth_method = "none" /\ Answered)
        => (response.handler /\ response.user = Some("anonymous"))

\* the container variant's X-Forwarded-Host check applies to the request
HostRejected ==
    /\ variant = "container"
    /\ allowed_hosts /= << >>
    /\ \/ request.x_forwarded_host = None
       \/ \A i \in 1..Len(allowed_hosts) :
            allowed_hosts[i] /= request.x_forwarded_host[1]

\* C1 (amended): with AUTH_METHOD=none the X-API-Key and Authorization
\* headers never matter and the request reaches the handler as "anonymous",
\* except that the container variant, when ALLOWED_SWA_HOSTS is configured,
\* answers 403 without invoking the handler to a request whose
\* X-Forwarded-Host is absent or not an allowed host.
C1_NoneAnonymousUnlessHostRejected ==
    (auth_method = "none" /\ Answered)
        => IF HostRejected
           THEN response.status = 403 /\ ~response.handler /\ response.user = None
           ELSE response.status = 200 /\ response.handler
                /\ response.user = Some("anonymous")

C1_Witness ==
    /\ auth_method = "none"
    /\ variant = "container"
    /\ allowed_hosts /= << >>
    /\ request.x_api_key = Some(<<"K">>)
    /\ request.authorization /= None
    /\ request.x_forwarded_host /= None
    /\ response.handler
    /\ response.user = Some("anonymous")

\* t is s without its leading and trailing whitespace
IsTrimOf(t, s) ==
    \E a \in 0..Len(s) : \E b \in 0..(Len(s) - a) :
        /\ \A i \in 1..a : s[i] \in Whitespace
        /\ \A i \in (Len(s) - b + 1)..Len(s) : s[i] \in Whitespace
        /\ t = SubSeq(s, a + 1, Len(s) - b)
        /\ t /= << >> => (t[1] \notin Whitespace /\ t[Len(t)] \notin Whitespace)

\* the X-API-Key header, trimmed, is a non-empty configured key
KeyAccepted ==
    /\ request.x_api_key /= None
    /\ \E i \in 1..Len(api_keys) :
         api_keys[i] /= << >> /\ IsTrimOf(api_keys[i], request.x_api_key[1])

\* C2: in api_key mode a request reaches its handler if and only if its
\* X-API-Key value, trimmed, is a non-empty exact (case-sensitive) member of
\* the configured keys; otherwise validate_api_key is false, the answer is
\* 401 and the handler is not invoked.
C2_ApiKeyIff ==
    (auth_method = "api_key" /\ Answered)
        => /\ response.handler <=> KeyAccepted
           /\ KeyAccepted => response.status = 200
           /\ ~KeyAccepted => /\ response.status = 401
                              /\ response.user = None
                              /\ variant = "function"
                                   => ~validate_api_key(request.x_api_key, api_keys)

C2_Witness ==
    /\ auth_method = "api_key"
    /\ variant = "function"
    /\ response.handler
    /\ request.x_api_key = Some(<<SP, "k", SP>>)

JwtAnswered ==
    auth_method = "jwt" /\ Answered /\ request.path = BusinessPath

IsWs(e) == e.k = "ch" /\ e.c \in Whitespace

BearerLetters ==
    <<{"b", "B"}, {"e", "E"}, {"a", "A"}, {"r", "R"}, {"e", "E"}, {"r", "R"}>>

\* w is the word "bearer" in some letter case
IsBearerWord(w) ==
    /\ Len(w) = Len(BearerLetters)
    /\ \A i \in 1..Len(w) : w[i].k = "ch" /\ w[i].c \in BearerLetters[i]

\* positions of h where a whitespace-separated part starts
PartStarts(h) ==
    {i \in 1..Len(h) : ~IsWs(h[i]) /\ (i = 1 \/ IsWs(h[i - 1]))}

\* the part of h that starts at position i
PartAt(h, i) ==
    LET ends == {j \in i..Len(h) : j = Len(h) \/ IsWs(h[j + 1])}
        e == CHOOSE j \in ends : \A x \in ends : j <= x
    IN  SubSeq(h, i, e)

FirstPart(h) ==
    LET st == PartStarts(h)
    IN  PartAt(h, CHOOSE i \in st : \A x \in st : i <= x)

\* the tokens t for which h is: whitespace, "bearer" in some case,
\* whitespace, t, whitespace -- and nothing else (one token or none)
BearerTokens(h) ==
    LET st == PartStarts(h)
    IN  IF Cardinality(st) /= 2 THEN {}
        ELSE LET first == CHOOSE i \in st : \A x \in st : i <= x
                 second == CHOOSE i \in st : i /= first
                 credential == PartAt(h, second)
             IN  IF IsBearerWord(PartAt(h, first))
                    /\ Len(credential) = 1 /\ credential[1].k = "tok"
                 THEN {credential[1].t}
                 ELSE {}

\* h is "bearer" in some case followed by two or more parts
BearerWithSeveral(h) ==
    /\ Cardinality(PartStarts(h)) >= 3
    /\ IsBearerWord(FirstPart(h))

\* t verifies under the configured secret and algorithm
CorrectlySigned(t) ==
    /\ t.form = "jws"
    /\ t.intact
    /\ t.key = secret_key
    /\ t.alg = algorithm

Unexpired(t) == "exp" \in DOMAIN t.payload => now < t.payload.exp * TicksPerSecond
PastExp(t) == "exp" \in DOMAIN t.payload /\ now > t.payload.exp * TicksPerSecond

ValidToken(t) ==
    CorrectlySigned(t) /\ Unexpired(t) /\ "sub" \in DOMAIN t.payload

\* the tokens t such that the request carries "Bearer t"
Presented ==
    IF request.authorization = None THEN {}
    ELSE BearerTokens(request.authorization[1])

AllTokens == PresentableTokens

\* C4: in jwt mode "bearer" in any letter case, whitespace, a valid token,
\* with any leading or trailing whitespace, authenticates as the token's
\* subject; "Bearer x y" is answered 401 even when x is valid.
C4_BearerAnyCase ==
    JwtAnswered =>
        /\ \A t \in Presented :
             ValidToken(t)
                => /\ response.status = 200
                   /\ response.handler
                   /\ response.user = Some(t.payload.sub)
        /\ (request.authorization /= None
            /\ BearerWithSeveral(request.authorization[1]))
                => response.status = 401 /\ ~response.handler

C4_Witness ==
    /\ JwtAnswered
    /\ \E t \in issued :
         /\ ValidToken(t)
         /\ t \in Presented
         /\ request.authorization =
              Some(Str(<<SP, TAB>>) \o Str(<<"B", "E", "A", "R", "E", "R">>)
                   \o Str(<<SP, SP>>) \o <<Tk(t)>> \o Str(<<SP>>))
         /\ response.user = Some("alice")

\* C5: in jwt mode the header is classified in order: absent or empty after
\* trimming is a missing credential; else a first part that is not "bearer"
\* (any case) is a wrong scheme however many parts follow; else a part count
\* other than two is a malformed credential; each is a 401 and the token is
\* not decoded.
C5_ClassificationOrder ==
    JwtAnswered =>
        LET a == request.authorization
        IN  IF a = None \/ PartStarts(a[1]) = {}
            THEN /\ response.status = 401
                 /\ response.detail \in {"Missing authorization header",
                                         "Empty authorization header"}
                 /\ ~response.jwt_decoded
            ELSE IF ~IsBearerWord(FirstPart(a[1]))
            THEN /\ response.status = 401
                 /\ response.detail = "Invalid authorization scheme. Expected Bearer"
                 /\ ~response.jwt_decoded
            ELSE IF Cardinality(PartStarts(a[1])) /= 2
            THEN /\ response.status = 401
                 /\ response.detail = "Invalid authorization header format"
                 /\ ~response.jwt_decoded
            ELSE response.jwt_decoded

C5_Witness ==
    /\ JwtAnswered
    /\ request.authorization /= None
    /\ Cardinality(PartStarts(request.authorization[1])) = 3
    /\ ~IsBearerWord(FirstPart(request.authorization[1]))
    /\ response.detail = "Invalid authorization scheme. Expected Bearer"

\* C6: the token issued by login is accepted at every time before its exp
\* and answered 401 "Token has expired" at every time after it; a correctly
\* signed token past its exp is never answered "Invalid token", and a
\* tampered token is never answered "Token has expired".
C6_ExpiryReporting ==
    JwtAnswered =>
        /\ \A t \in issued \cap Presented :
             /\ Unexpired(t) => /\ response.status = 200
                                /\ response.user = Some(t.payload.sub)
             /\ PastExp(t) => /\ response.status = 401
                              /\ response.detail = "Token has expired"
        /\ \A t \in Presented :
             (CorrectlySigned(t) /\ PastExp(t))
                => response.detail /= "Invalid token"
        /\ \A t \in Presented :
             (t.form = "jws" /\ ~t.intact)
                => response.detail /= "Token has expired"

C6_Witness ==
    /\ JwtAnswered
    /\ expire_minutes > 0
    /\ \E t \in issued \cap Presented : PastExp(t)
    /\ response.detail = "Token has expired"

C6_WitnessTampered ==
    /\ JwtAnswered
    /\ \E t \in issued : Tampered(t) \in Presented /\ PastExp(t)
    /\ response.detail = "Invalid token"

\* C7: a token signed with one secret and verified with a different one is
\* an invalid token: the request is answered 401 "Invalid token" and never
\* resolved to an identity.
C7_OtherSecretRejected ==
    /\ \A t \in AllTokens : \A s \in Secrets :
         (t.form = "jws" /\ t.key /= s)
            => decode_access_token(<<Tk(t)>>, s, t.alg, now).exc
                 = "InvalidSignatureError"
    /\ JwtAnswered =>
         \A t \in Presented :
            (t.form = "jws" /\ t.key /= secret_key)
                => /\ response.status = 401
                   /\ response.detail = "Invalid token"
                   /\ response.user = None
                   /\ ~response.handler

C7_Witness ==
    /\ JwtAnswered
    /\ \E t \in Presented :
         /\ t.form = "jws" /\ t.intact /\ t.alg = algorithm
         /\ t.key /= secret_key
         /\ Unexpired(t)
         /\ "sub" \in DOMAIN t.payload
    /\ response.detail = "Invalid token"

\* C8: in jwt mode a correctly signed, unexpired token without a sub claim is
\* answered 401 "Could not validate credentials": no identity, and neither
\* the invalid-token nor the expired-token answer.
C8_MissingSub ==
    JwtAnswered =>
        \A t \in Presented :
            (CorrectlySigned(t) /\ Unexpired(t)
             /\ "sub" \notin DOMAIN t.payload)
                => /\ response.status = 401
                   /\ response.detail = "Could not validate credentials"
                   /\ response.user = None
                   /\ ~response.handler

C8_Witness ==
    /\ JwtAnswered
    /\ \E t \in Presented :
         /\ CorrectlySigned(t) /\ Unexpired(t)
         /\ "sub" \notin DOMAIN t.payload
    /\ response.detail = "Could not validate credentials"

\* ------------------------------------------------------------------ claims C9-C10
\* the token returned by the last direct call of create_access_token was
\* decoded with the call's secret and algorithm before its exp
RoundTripDone ==
    /\ mint.pc = "idle"
    /\ mint.via = "direct"
    /\ decoded.token \in issued
    /\ decoded.key = mint.secret_key
    /\ decoded.alg = mint.algorithm
    /\ decoded.at < decoded.token.payload.exp * TicksPerSecond

\* C9: for every claim set containing sub, every secret, allowed algorithm
\* and lifetime above zero, decoding the created token with the same secret
\* and algorithm before expiry returns a payload whose sub is the passed sub;
\* create_access_token leaves the passed claim set as it was.
C9_RoundTrip ==
    /\ (RoundTripDone /\ mint.expires_delta > 0)
          => /\ decoded.exc = ""
             /\ "sub" \in DOMAIN decoded.payload
             /\ decoded.payload.sub = mint.passed.sub
    /\ mint.via = "direct" => mint.data = mint.passed

\* C10: every token minted with a lifetime of L minutes has exp - iat within
\* one second of L*60 seconds.
C10_LifetimeWithinOneSecond ==
    (mint.pc = "idle" /\ mint.via = "direct") =>
        \A t \in issued :
            LET l == mint.expires_delta \div TicksPerSecond
                d == t.payload.exp - t.payload.iat
            IN  d - l <= 1 /\ l - d <= 1

\* ------------------------------------------------------------------ claims C11-C14
\* a login request was answered
LoginAnswered == Answered /\ request.path = LoginPath

\* the submitted username is in the test-user map with the submitted password
CredentialsMatch ==
    /\ request.form /= None
    /\ request.form[1].username \in DOMAIN test_users
    /\ test_users[request.form[1].username] = hash_password(request.form[1].password)

\* a successful login answers 200 with a bearer token that carries the
\* submitted username as sub and is signed with the configured secret and
\* algorithm
LoginIssuesToken ==
    (auth_method = "jwt" /\ LoginAnswered /\ CredentialsMatch)
        => /\ response.status = 200
           /\ response.token_type = "bearer"
           /\ response.access_token /= None
           /\ LET t == response.access_token[1]
              IN  /\ t.form = "jws" /\ t.intact
                  /\ t.payload.sub = request.form[1].username
                  /\ t.key = secret_key
                  /\ t.alg = algorithm
                  /\ issued = {t}

\* the request arrives within the second in which the token was issued
SentImmediately(t) == now \div TicksPerSecond = t.payload.iat

\* C11 (as stated): in jwt mode a login with a known username and its
\* password answers 200 with a bearer token carrying the username, signed
\* with the configured secret and algorithm, and a protected request sent
\* immediately afterwards with "Bearer t" is resolved to that username.
C11_LoginThenAccess ==
    /\ LoginIssuesToken
    /\ JwtAnswered =>
         \A t \in issued \cap Presented :
            SentImmediately(t)
                => response.status = 200 /\ response.user = Some(t.payload.sub)

\* C11 (amended): the same, for a protected request sent before the token's
\* exp; with a lifetime of zero minutes the token is expired when issued.
C11_LoginThenAccessBeforeExp ==
    /\ LoginIssuesToken
    /\ JwtAnswered =>
         \A t \in issued \cap Presented :
            Unexpired(t)
                => response.status = 200 /\ response.user = Some(t.payload.sub)

C11_Witness ==
    /\ JwtAnswered
    /\ expire_minutes > 0
    /\ \E t \in issued \cap Presented : SentImmediately(t) /\ Unexpired(t)
    /\ response.user = Some("alice")

\* the one answer of the variant to a failed login
LoginFailure ==
    LoginRejected(401,
                  IF variant = "function" THEN "Incorrect username or password"
                  ELSE "Invalid username or password",
                  TRUE)

\* C12: a failed login does not reveal whether the username exists: an
\* attempt with an unknown username and one with a known username and a wrong
\* password get the same status (401), detail and headers.
C12_LoginFailureUniform ==
    (auth_method = "jwt" /\ LoginAnswered /\ ~CredentialsMatch)
        => response = LoginFailure

C12_Witness ==
    /\ auth_method = "jwt"
    /\ LoginAnswered
    /\ request.form[1].username \notin DOMAIN test_users
    /\ response.status = 401
    /\ response.detail = "Incorrect username or password"

\* C13: when the configured method is not jwt, every login request is
\* answered with a 400-level status other than 401 (the feature is disabled)
\* and no token is minted, in both variants.
C13_LoginDisabled ==
    (auth_method /= "jwt" /\ LoginAnswered)
        => /\ response.status >= 400 /\ response.status < 500
           /\ response.status /= 401
           /\ response.access_token = None
           /\ issued = {}

\* C14: every 401 answered in jwt mode -- missing or empty header, wrong
\* scheme, malformed header, missing sub, expired token, invalid token,
\* failed login -- carries WWW-Authenticate: Bearer.
C14_ChallengeOn401 ==
    (auth_method = "jwt" /\ Answered /\ response.status = 401)
        => response.www_authenticate

C14_Witness ==
    /\ JwtAnswered
    /\ response.status = 401
    /\ response.detail = "Token has expired"
    /\ response.www_authenticate

\* ------------------------------------------------------------------ claims C15-C20
\* a business request was answered under AUTH_METHOD=azure_swa
SwaAnswered ==
    auth_method = "azure_swa" /\ Answered /\ request.path = BusinessPath

\* the principal header is present and its text has the given form
PrincipalForm(f) ==
    /\ request.x_ms_client_principal /= None
    /\ request.x_ms_client_principal[1].form = f

\* C15: in azure_swa mode a principal header that is not valid base64, or is
\* base64 of text that is not JSON, is answered 401 with a detail made of
\* "Invalid Easy Auth principal" and the decode error; it is not reported as
\* a missing principal or a missing user identity.
C15_MalformedPrincipal ==
    (SwaAnswered /\ (PrincipalForm("not-base64") \/ PrincipalForm("not-json")))
        => /\ response.status = 401
           /\ response.detail \in {"Invalid Easy Auth principal: binascii.Error",
                                   "Invalid Easy Auth principal: JSONDecodeError"}

\* the JSON object of the principal header
PrincipalObject == request.x_ms_client_principal[1].claims

\* field k of the principal is present and not empty
Present(k) == k \in DOMAIN PrincipalObject /\ PrincipalObject[k] /= ""

\* the values of the nested claims typed as an email address or a name
NestedIdentities ==
    IF "claims" \notin DOMAIN PrincipalObject THEN {}
    ELSE {PrincipalObject.claims[i].val :
            i \in {j \in 1..Len(PrincipalObject.claims) :
                     /\ PrincipalObject.claims[j].typ \in {EmailUri, NameUri}
                     /\ PrincipalObject.claims[j].val /= ""}}

C17_NestedIdentity ==
    (SwaAnswered /\ PrincipalForm("object")
     /\ "userDetails" \notin DOMAIN PrincipalObject
     /\ "userId" \notin DOMAIN PrincipalObject
     /\ NestedIdentities /= {})
        => /\ response.status = 200
           /\ response.handler
           /\ \E v \in NestedIdentities : response.user = Some(v)

\* a business request was answered under AUTH_METHOD=apim
ApimAnswered ==
    auth_method = "apim" /\ Answered /\ request.path = BusinessPath

\* the header value is present and not empty
NonEmptyHeader(h) == h /= None /\ h[1] /= ""

\* C18: in apim mode the identity is the X-User-Email value when present and
\* non-empty, otherwise the X-User-ID value when present and non-empty; when
\* both are absent or empty the answer is 401 and the handler is not invoked.
C18_EmailThenId ==
    ApimAnswered =>
        IF NonEmptyHeader(request.x_user_email)
        THEN /\ response.status = 200
             /\ response.handler
             /\ response.user = request.x_user_email
        ELSE IF NonEmptyHeader(request.x_user_id)
        THEN /\ response.status = 200
             /\ response.handler
             /\ response.user = request.x_user_id
        ELSE /\ response.status = 401
             /\ ~response.handler
             /\ response.user = None
             /\ response.detail =
                  "APIM authentication required but no user headers found"

C18_Witness ==
    /\ ApimAnswered
    /\ NonEmptyHeader(request.x_user_email)
    /\ NonEmptyHeader(request.x_user_id)
    /\ response.user = Some("user@example.com")

\* C19: under azure_ad, a method get_auth_method accepts but no strategy
\* implements, every request to a protected endpoint is answered 501
\* "Authentication method not implemented" whatever credentials it carries,
\* and none reaches a business handler, in either variant.
C19_NotImplemented ==
    (auth_method = "azure_ad" /\ Answered /\ request.path = BusinessPath)
        => /\ response.status = 501
           /\ response.detail = "Authentication method not implemented"
           /\ ~response.handler
           /\ response.user = None

C19_Witness ==
    /\ auth_method = "azure_ad"
    /\ variant = "container"
    /\ Answered
    /\ request.path = BusinessPath
    /\ PrincipalForm("object")
    /\ NonEmptyHeader(request.x_user_email)
    /\ request.x_api_key /= None
    /\ response.status = 501

\* C20: for each implemented method and every content of the credential
\* headers, authenticating a request ends either in an identity or in a 401
\* with a detail; no header content leads to another status or to an
\* uncaught exception.
C20_IdentityOr401 ==
    (auth_method \in {"api_key", "jwt", "azure_swa", "apim"}
     /\ Answered /\ request.path = BusinessPath)
        => \/ response.status = 200 /\ response.handler /\ response.user /= None
           \/ response.status = 401 /\ response.detail /= ""

\* ------------------------------------------------------------------ config.py
\* os.environ holds, per variable, None (unset) or its text.  AUTH_METHOD and
\* JWT_ALGORITHM are whole words; API_KEYS and JWT_SECRET_KEY are sequences
\* of characters.
MaxEnvLen == 3

\* str.lower() / str.upper() of the words an environment can hold
str_lower(s) ==
    CASE s = "API_KEY" -> "api_key"
      [] s = "JWT" -> "jwt"
      [] s = "HS256" -> "hs256"
      [] s = "HS512" -> "hs512"
      [] OTHER -> s

str_upper(s) ==
    CASE s = "api_key" -> "API_KEY"
      [] s = "jwt" -> "JWT"
      [] s = "hs256" -> "HS256"
      [] s = "none" -> "NONE"
      [] OTHER -> s

\* os.getenv(name, default)
getenv(env, name, default) == IF env[name] = None THEN default ELSE env[name][1]

\* a getter returns a value or raises ValueError(error)
Returned(v) == [ok |-> TRUE, value |-> v, error |-> ""]
ValueError(placeholder, msg) == [ok |-> FALSE, value |-> placeholder, error |-> msg]

config_get_auth_method(env) ==
    LET auth_method_str == str_lower(getenv(env, "AUTH_METHOD", "none"))
    IN  IF auth_method_str \in AuthMethod THEN Returned(auth_method_str)
        ELSE ValueError("", "Invalid AUTH_METHOD")

\* str.split(","): the fields between the commas, empty ones included
RECURSIVE split_on(_, _)
split_on(s, sep) ==
    IF \E i \in 1..Len(s) : s[i] = sep
    THEN LET i == CHOOSE i \in 1..Len(s) : s[i] = sep /\ \A j \in 1..(i - 1) : s[j] /= sep
         IN  <<SubSeq(s, 1, i - 1)>> \o split_on(SubSeq(s, i + 1, Len(s)), sep)
    ELSE <<s>>

\* [f(x) for x in l] with f = str.strip
StripEach(l) == [i \in 1..Len(l) |-> strip(l[i], Whitespace)]

\* [x for x in l if x]
RECURSIVE Truthy(_)
Truthy(l) ==
    IF l = << >> THEN << >>
    ELSE IF Head(l) = << >> THEN Truthy(Tail(l))
    ELSE <<Head(l)>> \o Truthy(Tail(l))

config_get_api_keys_keeps_empty(env) ==
    IF ~config_get_auth_method(env).ok THEN ValueError(<< >>, "Invalid AUTH_METHOD")
    ELSE IF config_get_auth_method(env).value /= "api_key" THEN Returned(<< >>)
    ELSE LET api_keys_str == strip(getenv(env, "API_KEYS", << >>), Whitespace)
         IN  IF api_keys_str = << >>
             THEN ValueError(<< >>, "API_KEYS environment variable required when AUTH_METHOD=api_key")
             ELSE LET keys == StripEach(split_on(api_keys_str, ","))
                  IN  IF keys = << >>
                      THEN ValueError(<< >>, "API_KEYS cannot be empty when AUTH_METHOD=api_key")
                      ELSE Returned(keys)

config_get_api_keys(env) ==
    IF ~config_get_auth_method(env).ok THEN ValueError(<< >>, "Invalid AUTH_METHOD")
    ELSE IF config_get_auth_method(env).value /= "api_key" THEN Returned(<< >>)
    ELSE LET api_keys_str == strip(getenv(env, "API_KEYS", << >>), Whitespace)
         IN  IF api_keys_str = << >>
             THEN ValueError(<< >>, "API_KEYS environment variable required when AUTH_METHOD=api_key")
             ELSE LET keys == Truthy(StripEach(split_on(api_keys_str, ",")))
                  IN  IF keys = << >>
                      THEN ValueError(<< >>, "API_KEYS cannot be empty when AUTH_METHOD=api_key")
                      ELSE Returned(keys)

config_get_jwt_secret_key_raw_length(env) ==
    IF ~config_get_auth_method(env).ok THEN ValueError(<< >>, "Invalid AUTH_METHOD")
    ELSE IF config_get_auth_method(env).value /= "jwt" THEN Returned(<< >>)
    ELSE LET secret == strip(getenv(env, "JWT_SECRET_KEY", << >>), Whitespace)
         IN  IF secret = << >>
             THEN ValueError(<< >>, "JWT_SECRET_KEY environment variable required when AUTH_METHOD=jwt")
             ELSE IF Len(getenv(env, "JWT_SECRET_KEY", << >>)) < 32
             THEN ValueError(<< >>, "JWT_SECRET_KEY must be at least 32 characters long")
             ELSE Returned(secret)

config_get_jwt_secret_key(env) ==
    IF ~config_get_auth_method(env).ok THEN ValueError(<< >>, "Invalid AUTH_METHOD")
    ELSE IF config_get_auth_method(env).value /= "jwt" THEN Returned(<< >>)
    ELSE LET secret == strip(getenv(env, "JWT_SECRET_KEY", << >>), Whitespace)
         IN  IF secret = << >>
             THEN ValueError(<< >>, "JWT_SECRET_KEY environment variable required when AUTH_METHOD=jwt")
             ELSE IF Len(secret) < 32
             THEN ValueError(<< >>, "JWT_SECRET_KEY must be at least 32 characters long")
             ELSE Returned(secret)

valid_algorithms == {"HS256", "HS384", "HS512", "RS256", "RS384", "RS512",
                     "ES256", "ES384", "ES512"}

config_get_jwt_algorithm(env) ==
    LET alg == str_upper(getenv(env, "JWT_ALGORITHM", "HS256"))
    IN  IF alg \notin valid_algorithms THEN ValueError("", "Invalid JWT_ALGORITHM")
        ELSE Returned(alg)

\* the error validate_configuration raises, "" when it returns
validate_configuration(env) ==
    IF ~config_get_auth_method(env).ok THEN config_get_auth_method(env).error
    ELSE IF config_get_auth_method(env).value = "api_key"
    THEN config_get_api_keys(env).error
    ELSE IF config_get_auth_method(env).value = "jwt"
    THEN IF ~config_get_jwt_secret_key(env).ok
         THEN config_get_jwt_secret_key(env).error
         ELSE config_get_jwt_algorithm(env).error
    ELSE ""

\* ------------------------------------------------------------------ SpecConfig
\* A process of either variant comes up in an environment fixed beforehand
\* and then answers requests to its business endpoint.
AuthMethodWords == {None, Some("none"), Some("api_key"), Some("API_KEY"),
                    Some("jwt"), Some("JWT"), Some("azure_swa"), Some("apim"),
                    Some("azure_ad"), Some("invalid_method"), Some("")}
AlgorithmWords == {None, Some("HS256"), Some("hs256"), Some("HS512"),
                   Some("none"), Some("")}
ApiKeysAlphabet == {"k", "K", ",", SP}
ApiKeysTexts == {None} \cup {Some(s) : s \in SeqsUpTo(ApiKeysAlphabet, MaxEnvLen)}

\* secrets around the 32-character minimum, bare or wrapped in whitespace
SecretLengths == {0, 1, 31, 32, 33}
SecretBody(n) == [i \in 1..n |-> "s"]
SecretTexts ==
    {None} \cup {Some(l \o SecretBody(n) \o r) :
                    n \in SecretLengths, l \in {<< >>, <<SP>>}, r \in {<< >>, <<TAB>>}}

Environs ==
    UNION {
        {[AUTH_METHOD |-> a, API_KEYS |-> k, JWT_SECRET_KEY |-> s, JWT_ALGORITHM |-> g] :
            k \in (IF a \in {Some("api_key"), Some("API_KEY")} THEN ApiKeysTexts
                   ELSE {None, Some(<<"k">>)}),
            s \in (IF a \in {Some("jwt"), Some("JWT")} THEN SecretTexts
                   ELSE {None, Some(SecretBody(32))}),
            g \in AlgorithmWords} :
        a \in AuthMethodWords}

Starting == [state |-> "starting", error |-> ""]
Crashed(e) == [state |-> "crashed", error |-> e]

\* function_app.py validates the configuration when the module is imported
\* and re-raises; app/main.py of the container variant imports the getters
\* and calls none of them for the authentication settings before it serves
Start ==
    /\ process.state = "starting"
    /\ process' = (IF variant = "function" /\ validate_configuration(environ) /= ""
                   THEN Crashed(validate_configuration(environ))
                   ELSE Running)
    /\ UNCHANGED <<config, now, mint, issued, request, response, decoded, environ, inflight, frontends>>

\* an exception no handler catches: the server answers 500; detail keeps the
\* message of the exception
Unhandled(e) == Response(500, e)

\* the ValueError a getter raises while req is handled, "" when none does;
\* both middlewares begin with get_auth_method(), the function variant reads
\* get_api_keys() once a key is presented, the container variant on every
\* path it does not skip, and the jwt branch of get_current_user reads the
\* secret and the algorithm right before it decodes the token
request_configuration_error(req) ==
    IF ~config_get_auth_method(environ).ok THEN config_get_auth_method(environ).error
    ELSE IF /\ auth_method = "api_key"
            /\ IF variant = "function"
               THEN req.x_api_key /= None /\ req.x_api_key[1] /= << >>
               ELSE req.path \notin SkipPaths
            /\ ~config_get_api_keys(environ).ok
    THEN config_get_api_keys(environ).error
    ELSE IF auth_method = "jwt" /\ app(req, business_route(req)).jwt_decoded
    THEN IF ~config_get_jwt_secret_key(environ).ok
         THEN config_get_jwt_secret_key(environ).error
         ELSE config_get_jwt_algorithm(environ).error
    ELSE ""

ConfigRequests ==
    {[path |-> BusinessPath, x_api_key |-> k, authorization |-> a,
      x_forwarded_host |-> None, form |-> None,
      x_ms_client_principal |-> None, x_user_id |-> None,
      x_user_email |-> None] :
        k \in {None, Some(<<"k">>), Some(<<"K">>)},
        a \in {None, Some(Str(<<"B", "e", "a", "r", "e", "r", SP>>) \o <<Tk(Garbage)>>)}}

Serve ==
    /\ process.state = "ready"
    /\ Idle
    /\ \E req \in ConfigRequests :
        IF request_configuration_error(req) /= ""
        THEN /\ request' = req
             /\ response' = Unhandled(request_configuration_error(req))
             /\ UNCHANGED <<elsewhere, config, now, mint, issued, decoded>>
        ELSE HandleRequest(req)

\* the configuration variables hold what the getters return for environ, and
\* the placeholder of the getter where it raises
InitConfig ==
    /\ variant \in Variants
    /\ environ \in Environs
    /\ process = Starting
    /\ inflight = [i \in Slots |-> IdleSlot]
    /\ cloudflare = NotLoaded
    /\ entra = FreshBrowser
    /\ token_cache = ColdCache
    /\ gateway = GatewayIdle
    /\ subnet = NoSubnet
    /\ auth_method = config_get_auth_method(environ).value
    /\ api_keys = config_get_api_keys(environ).value
    /\ allowed_hosts = << >>
    /\ secret_key = config_get_jwt_secret_key(environ).value
    /\ algorithm = config_get_jwt_algorithm(environ).value
    /\ expire_minutes = 30
    /\ test_users = << >>
    /\ now = 0
    /\ mint = IdleMint
    /\ issued = {}
    /\ request = NoRequest
    /\ response = NoResponse
    /\ decoded = NoDecode

NextConfig == Start \/ Serve \/ Deliver

SpecConfig == InitConfig /\ [][NextConfig]_vars

\* ------------------------------------------------------------------ claims C21-C23
\* the fields of s between its commas, by position: a field starts after
\* position p, where p is 0 or the place of a comma
FieldStarts(s) == {0} \cup {p \in 1..Len(s) : s[p] = ","}
FieldEnd(s, p) ==
    CHOOSE q \in (p + 1)..(Len(s) + 1) :
        /\ q = Len(s) + 1 \/ s[q] = ","
        /\ \A j \in (p + 1)..(q - 1) : s[j] /= ","
Field(s, p) == SubSeq(s, p + 1, FieldEnd(s, p) - 1)
KeptFields(s) ==
    {p \in FieldStarts(s) : \E i \in (p + 1)..(FieldEnd(s, p) - 1) : s[i] \notin Whitespace}
IsEntriesOf(keys, s) ==
    /\ Len(keys) = Cardinality(KeptFields(s))
    /\ \A p \in KeptFields(s) :
        IsTrimOf(keys[1 + Cardinality({q \in KeptFields(s) : q < p})], Field(s, p))

ApiKeyMode == config_get_auth_method(environ).ok /\ config_get_auth_method(environ).value = "api_key"
JwtMode == config_get_auth_method(environ).ok /\ config_get_auth_method(environ).value = "jwt"

\* C21: under AUTH_METHOD=api_key get_api_keys returns exactly the
\* comma-separated entries of API_KEYS, each trimmed, the empty ones
\* discarded, in their original order; it raises a configuration error when
\* API_KEYS is unset, empty, or holds only separators and whitespace; the
\* list it returns is never empty and holds no empty or untrimmed key.  The
\* function variant, which calls it at start, runs with that list or crashes
\* with that error.
C21_ApiKeysParsed ==
    ApiKeyMode =>
        LET r == config_get_api_keys(environ)
            s == getenv(environ, "API_KEYS", << >>)
        IN  /\ r.ok <=> \E i \in 1..Len(s) : s[i] \notin Whitespace \cup {","}
            /\ ~r.ok => r.error \in
                   {"API_KEYS environment variable required when AUTH_METHOD=api_key",
                    "API_KEYS cannot be empty when AUTH_METHOD=api_key"}
            /\ r.ok => /\ IsEntriesOf(r.value, s)
                       /\ r.value /= << >>
                       /\ \A i \in 1..Len(r.value) :
                            /\ r.value[i] /= << >>
                            /\ r.value[i][1] \notin Whitespace
                            /\ r.value[i][Len(r.value[i])] \notin Whitespace
                            /\ \A j \in 1..Len(r.value[i]) : r.value[i][j] /= ","
            /\ (variant = "function" /\ process.state = "ready") =>
                   r.ok /\ api_keys = r.value
            /\ process.state = "crashed" => ~r.ok /\ process.error = r.error

\* one key is left of a text that also held whitespace and a separator
C21_Witness ==
    /\ variant = "function"
    /\ process.state = "ready"
    /\ auth_method = "api_key"
    /\ Len(api_keys) = 1
    /\ \E i \in 1..Len(environ.API_KEYS[1]) : environ.API_KEYS[1][i] = ","
    /\ environ.API_KEYS[1][1] = SP

\* s from its first to its last character that is not whitespace
Trimmed(s) ==
    LET inked == {i \in 1..Len(s) : s[i] \notin Whitespace}
    IN  IF inked = {} THEN << >>
        ELSE SubSeq(s, CHOOSE i \in inked : \A j \in inked : i <= j,
                       CHOOSE i \in inked : \A j \in inked : i >= j)

\* C22: under AUTH_METHOD=jwt get_jwt_secret_key returns the trimmed
\* JWT_SECRET_KEY exactly when it has at least 32 characters after trimming;
\* a missing or blank value raises the message that names the variable as
\* required, a shorter non-blank value raises the other message, about the
\* 32-character minimum.  The function variant runs with the trimmed secret
\* or crashes with that message.
C22_SecretKeyChecked ==
    JwtMode =>
        LET r == config_get_jwt_secret_key(environ)
            t == Trimmed(getenv(environ, "JWT_SECRET_KEY", << >>))
        IN  /\ r.ok <=> Len(t) >= 32
            /\ r.ok => r.value = t
            /\ t = << >> =>
                   r.error = "JWT_SECRET_KEY environment variable required when AUTH_METHOD=jwt"
            /\ (t /= << >> /\ Len(t) < 32) =>
                   r.error = "JWT_SECRET_KEY must be at least 32 characters long"
            /\ (variant = "function" /\ process.state = "ready") =>
                   r.ok /\ secret_key = t
            /\ (process.state = "crashed" /\ ~r.ok) => process.error = r.error

\* a secret of exactly 32 characters, found inside surrounding whitespace
C22_Witness ==
    /\ variant = "function"
    /\ process.state = "ready"
    /\ auth_method = "jwt"
    /\ Len(secret_key) = 32
    /\ Len(environ.JWT_SECRET_KEY[1]) = 34

\* C23: a configuration error stops the process at start, and no request
\* ends in one, in either variant.
C23_ConfigErrorsOnlyAtStart ==
    /\ validate_configuration(environ) /= "" => process.state /= "ready"
    /\ response.status /= 500

\* ------------------------------------------------------------------ SpecConcurrent
\* Two requests are handled at once.  The event loop interleaves them at
\* every await: a request is received, runs the middleware stack up to
\* call_next, runs the route with its get_current_user dependency, and is
\* answered.
ConcurrentMethods == {"none", "api_key", "jwt", "apim"}

\* tokens signed with the configured secret: one that expires a minute after
\* the start, one that expired at the start
ConcurrentTokens ==
    {jwt_encode([sub |-> "mallory", iat |-> 0, exp |-> e], secret_key, algorithm) :
        e \in {0, SleepTicks}}

ConcurrentRequests ==
    {[path |-> BusinessPath, x_api_key |-> k, authorization |-> a,
      x_forwarded_host |-> None, form |-> None,
      x_ms_client_principal |-> None, x_user_id |-> None,
      x_user_email |-> e] :
        k \in (IF auth_method = "api_key" THEN {None, Some(<<"k">>), Some(<<"K">>)}
               ELSE {None}),
        a \in (IF auth_method = "jwt"
               THEN {None} \cup {Some(Str(Bearer) \o Str(<<SP>>) \o <<Tk(t)>>) :
                                    t \in ConcurrentTokens}
               ELSE {None}),
        e \in (IF auth_method = "apim" THEN {None, Some("user@example.com")}
               ELSE {None})}

\* the Request object a handler of slot i is called with
handler_request_first(i) == inflight[1].req

handler_request(i) == inflight[i].req

Receive(i) ==
    /\ inflight[i].pc = "idle"
    /\ \E req \in ConcurrentRequests :
        inflight' = [inflight EXCEPT ![i] = [pc |-> "middleware", req |-> req,
                                              resp |-> NoResponse]]
    /\ UNCHANGED <<startup, frontends, config, now, mint, issued, request, response, decoded>>

\* the middleware stack answers, or awaits call_next
MiddlewareStep(i) ==
    /\ inflight[i].pc = "middleware"
    /\ LET r == app(handler_request(i), NoResponse)
       IN  inflight' = [inflight EXCEPT ![i] =
                IF r = NoResponse THEN [@ EXCEPT !.pc = "route"]
                ELSE [@ EXCEPT !.pc = "answered", !.resp = r]]
    /\ UNCHANGED <<startup, frontends, config, now, mint, issued, request, response, decoded>>

\* the route resolves get_current_user and runs its body
RouteStep(i) ==
    /\ inflight[i].pc = "route"
    /\ inflight' = [inflight EXCEPT ![i] =
            [@ EXCEPT !.pc = "answered", !.resp = business_route(handler_request(i))]]
    /\ UNCHANGED <<startup, frontends, config, now, mint, issued, request, response, decoded>>

Answer(i) ==
    /\ inflight[i].pc = "answered"
    /\ inflight' = [inflight EXCEPT ![i] = IdleSlot]
    /\ UNCHANGED <<startup, frontends, config, now, mint, issued, request, response, decoded>>

InitConcurrent ==
    /\ Started
    /\ variant \in Variants
    /\ auth_method \in ConcurrentMethods
    /\ api_keys = (IF auth_method = "api_key" THEN <<<<"k">>>> ELSE << >>)
    /\ allowed_hosts = << >>
    /\ secret_key = (IF auth_method = "jwt" THEN "test-secret-key-minimum-32-chars-long" ELSE "")
    /\ algorithm = "HS256"
    /\ expire_minutes = 30
    /\ test_users = << >>
    /\ now = 0
    /\ mint = IdleMint
    /\ issued = {}
    /\ request = NoRequest
    /\ response = NoResponse
    /\ decoded = NoDecode

NextConcurrent ==
    \/ \E i \in Slots : Receive(i)
    \/ \E i \in Slots : MiddlewareStep(i)
    \/ \E i \in Slots : RouteStep(i)
    \/ \E i \in Slots : Answer(i)
    \/ Tick
    \/ Sleep

SpecConcurrent == InitConcurrent /\ [][NextConcurrent]_vars

\* ------------------------------------------------------------------ claim C24
\* the response the application gives req when it is handled alone, in the
\* current configuration and at the current time
Alone(req) == app(req, business_route(req))

HealthPath == "/api/v1/health"

health_check == [Response(200, "healthy") EXCEPT !.handler = TRUE]

HealthRequests ==
    {[path |-> HealthPath, x_api_key |-> k, authorization |-> None,
      x_forwarded_host |-> f, form |-> None,
      x_ms_client_principal |-> None, x_user_id |-> None,
      x_user_email |-> None] :
        k \in ApiKeyHeaders, f \in ForwardedHosts}

HealthRequest ==
    /\ Idle
    /\ \E req \in HealthRequests :
        /\ request' = req
        /\ response' = app(req, health_check)
    /\ UNCHANGED <<elsewhere, config, now, mint, issued, decoded>>

InitHealth ==
    /\ Started
    /\ variant \in Variants
    /\ auth_method \in AuthMethod
    /\ api_keys \in (IF auth_method = "api_key" THEN KeyLists ELSE {<< >>})
    /\ allowed_hosts \in AllowedHostLists
    /\ secret_key = (IF auth_method = "jwt" THEN "test-secret-key-minimum-32-chars-long" ELSE "")
    /\ algorithm = "HS256"
    /\ expire_minutes = 30
    /\ test_users = << >>
    /\ now = 0
    /\ mint = IdleMint
    /\ issued = {}
    /\ request = NoRequest
    /\ response = NoResponse
    /\ decoded = NoDecode

NextHealth == HealthRequest \/ Deliver

SpecHealth == InitHealth /\ [][NextHealth]_vars

\* ------------------------------------------------------------------ claim C25
\* C25: under every AUTH_METHOD, in both variants, a GET /api/v1/health
\* that carries no credential header is answered 200 with status "healthy".
C25_HealthUnauthenticated ==
    (/\ response.status /= 0
     /\ request.path = HealthPath
     /\ request.x_api_key = None
     /\ request.authorization = None
     /\ request.x_ms_client_principal = None
     /\ request.x_user_id = None
     /\ request.x_user_email = None)
        => /\ response.status = 200
           /\ response.detail = "healthy"
           /\ response.handler

\* ---------------------------------------------------------------------------
\* Cloudflare IP ranges (cloudflare_ips.py): fetch, parse, cache, refresh
\* ---------------------------------------------------------------------------

CLOUDFLARE_IPV4_URL == "https://www.cloudflare.com/ips-v4/"
CLOUDFLARE_IPV6_URL == "https://www.cloudflare.com/ips-v6/"

Network(version, cidr) == [ok |-> TRUE, version |-> version, cidr |-> cidr]
InvalidNetwork == [ok |-> FALSE, version |-> 0, cidr |-> ""]

FALLBACK_IPV4_RANGES ==
    << Network(4, "173.245.48.0/20"), Network(4, "103.21.244.0/22"),
       Network(4, "103.22.200.0/22"), Network(4, "103.31.4.0/22"),
       Network(4, "141.101.64.0/18"), Network(4, "108.162.192.0/18"),
       Network(4, "190.93.240.0/20"), Network(4, "188.114.96.0/20"),
       Network(4, "197.234.240.0/22"), Network(4, "198.41.128.0/17"),
       Network(4, "162.158.0.0/15"), Network(4, "104.16.0.0/13"),
       Network(4, "104.24.0.0/14"), Network(4, "172.64.0.0/13"),
       Network(4, "131.0.72.0/22") >>

FALLBACK_IPV6_RANGES ==
    << Network(6, "2400:cb00::/32"), Network(6, "2606:4700::/32"),
       Network(6, "2803:f800::/32"), Network(6, "2405:b500::/32"),
       Network(6, "2405:8100::/32"), Network(6, "2a06:98c0::/29"),
       Network(6, "2c0f:f248::/32") >>

\* str.strip() on the lines a response can hold
line_strip(line) ==
    CASE line = " 104.24.0.0/14 " -> "104.24.0.0/14"
      [] line = "  " -> ""
      [] OTHER -> line

\* ipaddress.ip_network(cidr, strict=False): host bits are masked off, text
\* that is no CIDR raises ValueError
ip_network(cidr) ==
    CASE cidr = "173.245.48.0/20" -> Network(4, "173.245.48.0/20")
      [] cidr = "104.16.0.1/13" -> Network(4, "104.16.0.0/13")
      [] cidr = "104.24.0.0/14" -> Network(4, "104.24.0.0/14")
      [] cidr = "2606:4700::/32" -> Network(6, "2606:4700::/32")
      [] cidr = "2400:cb00::1/32" -> Network(6, "2400:cb00::/32")
      [] OTHER -> InvalidNetwork

\* What client.get(url) followed by raise_for_status() can produce
HttpFailures == {"timeout", "http_status_error", "request_error"}
HttpOk(lines) == [kind |-> "ok", lines |-> lines]
HttpFailed(kind) == [kind |-> kind, lines |-> << >>]

fetch_ip_ranges(resp) ==
    IF resp.kind /= "ok"
    THEN None
    ELSE LET stripped == [i \in 1..Len(resp.lines) |-> line_strip(resp.lines[i])]
             ranges == SelectSeq(stripped, LAMBDA line : line /= "")
         IN  IF ranges = << >> THEN None ELSE Some(ranges)

parse_ranges(range_strings, version) ==
    LET parsed == [i \in 1..Len(range_strings) |-> ip_network(range_strings[i])]
    IN  SelectSeq(parsed, LAMBDA n : n.ok /\ n.version = version)

parse_ipv4_ranges(range_strings) == parse_ranges(range_strings, 4)

parse_ipv6_ranges(range_strings) == parse_ranges(range_strings, 6)

Call(name, gets, ranges) ==
    [name |-> name, gets |-> gets, ranges |-> ranges, result |-> NoResult]

get_cloudflare_ipv4_ranges_uncached(c, resp) ==
    LET range_strings == fetch_ip_ranges(resp)
        parsed == IF range_strings /= None
                  THEN parse_ipv4_ranges(range_strings[1])
                  ELSE << >>
        gets == << CLOUDFLARE_IPV4_URL >>
    IN  IF parsed /= << >>
        THEN [c EXCEPT !.cached_ipv4 = Some(parsed),
                       !.source_ipv4 = "cloudflare",
                       !.response_ipv4 = resp,
                       !.call = Call("get_cloudflare_ipv4_ranges", gets, parsed)]
        ELSE [c EXCEPT !.cached_ipv4 = Some(FALLBACK_IPV4_RANGES),
                       !.source_ipv4 = "fallback",
                       !.response_ipv4 = resp,
                       !.call = Call("get_cloudflare_ipv4_ranges", gets,
                                     FALLBACK_IPV4_RANGES)]
get_cloudflare_ipv4_ranges(c, resp) ==
    IF c.cached_ipv4 /= None
    THEN [c EXCEPT !.call = Call("get_cloudflare_ipv4_ranges", << >>, c.cached_ipv4[1])]
    ELSE LET range_strings == fetch_ip_ranges(resp)
             parsed == IF range_strings /= None
                       THEN parse_ipv4_ranges(range_strings[1])
                       ELSE << >>
             gets == << CLOUDFLARE_IPV4_URL >>
         IN  IF parsed /= << >>
             THEN [c EXCEPT !.cached_ipv4 = Some(parsed),
                            !.source_ipv4 = "cloudflare",
                            !.response_ipv4 = resp,
                            !.call = Call("get_cloudflare_ipv4_ranges", gets, parsed)]
             ELSE [c EXCEPT !.cached_ipv4 = Some(FALLBACK_IPV4_RANGES),
                            !.source_ipv4 = "fallback",
                            !.response_ipv4 = resp,
                            !.call = Call("get_cloudflare_ipv4_ranges", gets,
                                          FALLBACK_IPV4_RANGES)]

get_cloudflare_ipv6_ranges(c, resp) ==
    IF c.cached_ipv6 /= None
    THEN [c EXCEPT !.call = Call("get_cloudflare_ipv6_ranges", << >>, c.cached_ipv6[1])]
    ELSE LET range_strings == fetch_ip_ranges(resp)
             parsed == IF range_strings /= None
                       THEN parse_ipv6_ranges(range_strings[1])
                       ELSE << >>
             gets == << CLOUDFLARE_IPV6_URL >>
         IN  IF parsed /= << >>
             THEN [c EXCEPT !.cached_ipv6 = Some(parsed),
                            !.source_ipv6 = "cloudflare",
                            !.response_ipv6 = resp,
                            !.call = Call("get_cloudflare_ipv6_ranges", gets, parsed)]
             ELSE [c EXCEPT !.cached_ipv6 = Some(FALLBACK_IPV6_RANGES),
                            !.source_ipv6 = "fallback",
                            !.response_ipv6 = resp,
                            !.call = Call("get_cloudflare_ipv6_ranges", gets,
                                          FALLBACK_IPV6_RANGES)]

refresh_cloudflare_ranges(c, resp4, resp6) ==
    LET cleared == [c EXCEPT !.cached_ipv4 = None, !.cached_ipv6 = None,
                             !.source_ipv4 = "not_loaded",
                             !.source_ipv6 = "not_loaded"]
        after4 == get_cloudflare_ipv4_ranges(cleared, resp4)
        after6 == get_cloudflare_ipv6_ranges(after4, resp6)
    IN  [after6 EXCEPT !.call =
            [name |-> "refresh_cloudflare_ranges",
             gets |-> after4.call.gets \o after6.call.gets,
             ranges |-> << >>,
             result |-> [ipv4 |-> [source |-> after6.source_ipv4,
                                   count |-> Len(after4.call.ranges)],
                         ipv6 |-> [source |-> after6.source_ipv6,
                                   count |-> Len(after6.call.ranges)]]]]

\* --- SpecCloudflare: the three entry points called one after another ------

api == <<config, now, mint, issued, request, response, decoded>>

\* The API's own variables while another program of the repository runs
ApiAtRest ==
    /\ variant = "function"
    /\ auth_method = "none"
    /\ api_keys = << >>
    /\ allowed_hosts = << >>
    /\ secret_key = ""
    /\ algorithm = "HS256"
    /\ expire_minutes = 30
    /\ test_users = << >>
    /\ now = 0
    /\ mint = IdleMint
    /\ issued = {}
    /\ request = NoRequest
    /\ response = NoResponse
    /\ decoded = NoDecode

ResponseTexts ==
    { << >>,
      << "  " >>,
      << "not-a-cidr" >>,
      << "173.245.48.0/20" >>,
      << "173.245.48.0/20", "104.16.0.1/13" >>,
      << " 104.24.0.0/14 ", "", "not-a-cidr" >>,
      << "2606:4700::/32" >>,
      << "2400:cb00::1/32", "173.245.48.0/20" >> }

RemoteResponses ==
    {HttpOk(t) : t \in ResponseTexts} \cup {HttpFailed(k) : k \in HttpFailures}

GetIPv4 ==
    /\ cloudflare.call.name = ""
    /\ \E resp \in RemoteResponses :
         cloudflare' = get_cloudflare_ipv4_ranges(cloudflare, resp)
    /\ UNCHANGED <<api, startup, inflight, entra, token_cache, gateway, subnet>>

GetIPv6 ==
    /\ cloudflare.call.name = ""
    /\ \E resp \in RemoteResponses :
         cloudflare' = get_cloudflare_ipv6_ranges(cloudflare, resp)
    /\ UNCHANGED <<api, startup, inflight, entra, token_cache, gateway, subnet>>

Refresh ==
    /\ cloudflare.call.name = ""
    /\ \E resp4 \in RemoteResponses, resp6 \in RemoteResponses :
         cloudflare' = refresh_cloudflare_ranges(cloudflare, resp4, resp6)
    /\ UNCHANGED <<api, startup, inflight, entra, token_cache, gateway, subnet>>

CallReturns ==
    /\ cloudflare.call.name /= ""
    /\ cloudflare' = [cloudflare EXCEPT !.call = NoCall]
    /\ UNCHANGED <<api, startup, inflight, entra, token_cache, gateway, subnet>>

InitCloudflare == Started /\ ApiAtRest

NextCloudflare == GetIPv4 \/ GetIPv6 \/ Refresh \/ CallReturns

SpecCloudflare == InitCloudflare /\ [][NextCloudflare]_vars

\* ------------------------------------------------------------------ claim C26
NetworkOfLine(line) == ip_network(line_strip(line))

KeptLines(resp, version) ==
    {i \in 1..Len(resp.lines) :
        NetworkOfLine(resp.lines[i]).ok /\ NetworkOfLine(resp.lines[i]).version = version}

NetworksIn(resp, version) ==
    LET kept == KeptLines(resp, version)
        nth(k) == CHOOSE i \in kept : Cardinality({j \in kept : j <= i}) = k
    IN  [k \in 1..Cardinality(kept) |-> NetworkOfLine(resp.lines[nth(k)])]

CachedFamily(cached, source, resp, version, fallback) ==
    /\ source \in {"not_loaded", "cloudflare", "fallback"}
    /\ source = "not_loaded" <=> cached = None
    /\ cached /= None => cached[1] /= << >>
    /\ source = "cloudflare" <=>
          /\ cached /= None
          /\ resp.kind = "ok"
          /\ cached[1] = NetworksIn(resp, version)
    /\ source = "fallback" <=> cached = Some(fallback)

C26_CacheState ==
    /\ CachedFamily(cloudflare.cached_ipv4, cloudflare.source_ipv4,
                    cloudflare.response_ipv4, 4, FALLBACK_IPV4_RANGES)
    /\ CachedFamily(cloudflare.cached_ipv6, cloudflare.source_ipv6,
                    cloudflare.response_ipv6, 6, FALLBACK_IPV6_RANGES)
    /\ cloudflare.call.name \in {"get_cloudflare_ipv4_ranges", "get_cloudflare_ipv6_ranges"}
          => cloudflare.call.ranges /= << >>

C26_CallStep ==
    /\ (cloudflare'.call.name = "get_cloudflare_ipv4_ranges" /\ cloudflare.cached_ipv4 /= None)
          => /\ cloudflare'.call.gets = << >>
             /\ cloudflare'.call.ranges = cloudflare.cached_ipv4[1]
    /\ (cloudflare'.call.name = "get_cloudflare_ipv6_ranges" /\ cloudflare.cached_ipv6 /= None)
          => /\ cloudflare'.call.gets = << >>
             /\ cloudflare'.call.ranges = cloudflare.cached_ipv6[1]
    /\ cloudflare'.call.name = "get_cloudflare_ipv4_ranges"
          => cloudflare'.call.ranges = cloudflare'.cached_ipv4[1]
    /\ cloudflare'.call.name = "get_cloudflare_ipv6_ranges"
          => cloudflare'.call.ranges = cloudflare'.cached_ipv6[1]
    /\ cloudflare'.call.name /= "refresh_cloudflare_ranges"
          => /\ cloudflare.cached_ipv4 /= None =>
                   /\ cloudflare'.cached_ipv4 = cloudflare.cached_ipv4
                   /\ cloudflare'.source_ipv4 = cloudflare.source_ipv4
             /\ cloudflare.cached_ipv6 /= None =>
                   /\ cloudflare'.cached_ipv6 = cloudflare.cached_ipv6
                   /\ cloudflare'.source_ipv6 = cloudflare.source_ipv6
    /\ (cloudflare.call.name = "" /\ cloudflare'.call.name = "refresh_cloudflare_ranges")
          => cloudflare'.call.gets = << CLOUDFLARE_IPV4_URL, CLOUDFLARE_IPV6_URL >>

\* C26: once a family's ranges are cached, every get returns that list without
\* a remote fetch until refresh_cloudflare_ranges, which fetches both families
\* again; a returned list is never empty; the source is "cloudflare" exactly
\* when the list was parsed from the fetched response and "fallback" exactly
\* when it is the hardcoded list.
C26_RangeCache == [](C26_CacheState) /\ [][C26_CallStep]_vars

\* A second get of the IPv4 ranges answered from a cache that was filled from
\* Cloudflare, while the IPv6 cache holds the fallback after a failed fetch.
C26_Witness ==
    /\ cloudflare.call.name = "get_cloudflare_ipv4_ranges"
    /\ cloudflare.call.gets = << >>
    /\ cloudflare.source_ipv4 = "cloudflare"
    /\ Len(cloudflare.call.ranges) = 2
    /\ cloudflare.source_ipv6 = "fallback"
    /\ cloudflare.response_ipv6.kind = "timeout"

\* ---------------------------------------------------------------------------
\* Flask frontend, Entra ID login (frontend-python-flask/auth.py)
\* ---------------------------------------------------------------------------

\* dict.get(key): None when the key is absent
dict_get(d, key) == IF key \in DOMAIN d THEN Some(d[key]) ELSE None

\* d[key] = value
dict_set(d, key, value) ==
    [k \in DOMAIN d \cup {key} |-> IF k = key THEN value ELSE d[k]]

Reply(status, body) == [status |-> status, body |-> body]
Redirect(url) == Reply(302, url)

\* What msal_app.acquire_token_by_authorization_code can do with a code
TokenOutcomes == {"tokens", "error", "raises"}
token_result(code) ==
    [access_token |-> "access-" \o code,
     id_token |-> "id-" \o code,
     id_token_claims |-> [name |-> "user-" \o code]]

\* login (auth.py:63-78): returns the session and the reply
entra_login(session, uuid) ==
    [session |-> dict_set(session, "state", uuid),
     reply |-> Redirect("authorize?state=" \o uuid)]

\* auth_callback (auth.py:80-118)
auth_callback(session, args_state, args_code, outcome) ==
    IF args_state /= dict_get(session, "state")
    THEN [session |-> session, reply |-> Reply(401, "State validation failed")]
    ELSE IF args_code = None \/ args_code = Some("")
    THEN [session |-> session, reply |-> Reply(401, "Authorization failed")]
    ELSE IF outcome = "raises"
    THEN [session |-> session, reply |-> Reply(500, "Token acquisition error")]
    ELSE IF outcome = "error"
    THEN [session |-> session, reply |-> Reply(401, "Token acquisition failed")]
    ELSE LET result == token_result(args_code[1])
             s1 == dict_set(session, "access_token", result.access_token)
             s2 == dict_set(s1, "id_token", result.id_token)
             s3 == dict_set(s2, "user", result.id_token_claims)
         IN  [session |-> s3, reply |-> Redirect("index")]

\* logout (auth.py:120-129)
entra_logout(session) ==
    [session |-> EmptySession, reply |-> Redirect("oauth2/v2.0/logout")]

is_authenticated(session) == "user" \in DOMAIN session

\* --- SpecEntra: one browser session visiting the three routes -------------

Uuids == {"u1", "u2"}
StateParameters == {None} \cup {Some(u) : u \in Uuids \cup {"forged"}}
CodeParameters == {None, Some(""), Some("c1")}

EntraElsewhere == <<api, startup, inflight, cloudflare, token_cache, gateway, subnet>>

Login ==
    /\ \E uuid \in Uuids :
         LET done == entra_login(entra.session, uuid)
         IN  entra' = [session |-> done.session,
                       logins |-> entra.logins \cup {uuid},
                       visit |-> [op |-> "login", state |-> None,
                                  before |-> entra.session],
                       reply |-> done.reply]
    /\ UNCHANGED EntraElsewhere

AuthCallback ==
    /\ \E args_state \in StateParameters, args_code \in CodeParameters,
          outcome \in TokenOutcomes :
         LET done == auth_callback(entra.session, args_state, args_code, outcome)
         IN  entra' = [session |-> done.session,
                       logins |-> entra.logins,
                       visit |-> [op |-> "auth_callback", state |-> args_state,
                                  before |-> entra.session],
                       reply |-> done.reply]
    /\ UNCHANGED EntraElsewhere

Logout ==
    /\ LET done == entra_logout(entra.session)
       IN  entra' = [session |-> done.session,
                     logins |-> entra.logins,
                     visit |-> [op |-> "logout", state |-> None,
                                before |-> entra.session],
                     reply |-> done.reply]
    /\ UNCHANGED EntraElsewhere

InitEntra == Started /\ ApiAtRest

NextEntra == Login \/ AuthCallback \/ Logout

SpecEntra == InitEntra /\ [][NextEntra]_vars

\* ------------------------------------------------------------------ claim C27
StateMatchesLogin(visit, logins) ==
    /\ visit.state /= None
    /\ visit.state[1] \in logins
    /\ visit.state = dict_get(visit.before, "state")

StoredTokens(visit, session) ==
    \E key \in {"access_token", "id_token", "user"} :
        dict_get(session, key) /= dict_get(visit.before, key)

\* C27: auth_callback stores access_token, id_token and user only when the
\* request's state equals a state an earlier login() stored in this session;
\* every other callback, one in a session where login() was never called
\* included, is answered 401 "State validation failed" and leaves the session
\* unchanged; after logout() there is no user and is_authenticated() is false.
C27_CallbackNeedsLoginState ==
    /\ entra.visit.op = "auth_callback" =>
         /\ StoredTokens(entra.visit, entra.session)
              => StateMatchesLogin(entra.visit, entra.logins)
         /\ ~StateMatchesLogin(entra.visit, entra.logins)
              => /\ entra.reply = Reply(401, "State validation failed")
                 /\ entra.session = entra.visit.before
    /\ entra.visit.op = "logout" =>
         /\ dict_get(entra.session, "user") = None
         /\ ~is_authenticated(entra.session)

\* ---------------------------------------------------------------------------
\* Flask frontend, token cache (frontend-python-flask/app.py)
\* ---------------------------------------------------------------------------

MaxLatency == 2
MaxNaps == 7

\* POST {API_BASE_URL}/auth/login as the API handles it at time t
api_login(form, t) ==
    LET entered == login(form)
    IN  IF entered.mint.pc = "idle"
        THEN entered.response
        ELSE LoginAccepted(create_encode(create_set_exp(create_set_iat(entered.mint, t), t)))

LoginCall(kind, token, error) == [kind |-> kind, token |-> token, error |-> error]

\* the API is reached after d1 ticks and its answer is read d2 ticks later;
\* reachable is FALSE when requests.post raises ConnectionError or Timeout
get_jwt_token_cached_35_minutes(tc, t, reachable, d1, d2) ==
    IF tc.JWT_USERNAME \in {None, Some("")} \/ tc.JWT_PASSWORD \in {None, Some("")}
    THEN [cache |-> [tc EXCEPT !.call = LoginCall("unconfigured", None, "")], now |-> t]
    ELSE IF tc.jwt_token /= None /\ tc.jwt_token_expires /= None
            /\ t < tc.jwt_token_expires[1]
    THEN [cache |-> [tc EXCEPT !.call = LoginCall("cached", tc.jwt_token, "")], now |-> t]
    ELSE LET login_response ==
                 api_login([username |-> tc.JWT_USERNAME[1],
                            password |-> tc.JWT_PASSWORD[1]], t + d1)
             done == t + d1 + d2
         IN  IF ~reachable
             THEN [cache |-> [tc EXCEPT !.jwt_token = None,
                                        !.jwt_token_expires = None,
                                        !.call = LoginCall("failed", None, "ConnectionError")],
                   now |-> done]
             ELSE IF login_response.status /= 200
             THEN [cache |-> [tc EXCEPT !.jwt_token = None,
                                        !.jwt_token_expires = None,
                                        !.call = LoginCall("failed", None, "HTTPError")],
                   now |-> done]
             ELSE [cache |-> [tc EXCEPT !.jwt_token = login_response.access_token,
                                        !.jwt_token_expires = Some(done + timedelta_minutes(35)),
                                        !.call = LoginCall("login", login_response.access_token, "")],
                   now |-> done]
get_jwt_token(tc, t, reachable, d1, d2) ==
    IF tc.JWT_USERNAME \in {None, Some("")} \/ tc.JWT_PASSWORD \in {None, Some("")}
    THEN [cache |-> [tc EXCEPT !.call = LoginCall("unconfigured", None, "")], now |-> t]
    ELSE IF tc.jwt_token /= None /\ tc.jwt_token_expires /= None
            /\ t < tc.jwt_token_expires[1]
    THEN [cache |-> [tc EXCEPT !.call = LoginCall("cached", tc.jwt_token, "")], now |-> t]
    ELSE LET login_response ==
                 api_login([username |-> tc.JWT_USERNAME[1],
                            password |-> tc.JWT_PASSWORD[1]], t + d1)
             done == t + d1 + d2
         IN  IF ~reachable
             THEN [cache |-> [tc EXCEPT !.jwt_token = None,
                                        !.jwt_token_expires = None,
                                        !.call = LoginCall("failed", None, "ConnectionError")],
                   now |-> done]
             ELSE IF login_response.status /= 200
             THEN [cache |-> [tc EXCEPT !.jwt_token = None,
                                        !.jwt_token_expires = None,
                                        !.call = LoginCall("failed", None, "HTTPError")],
                   now |-> done]
             ELSE [cache |-> [tc EXCEPT !.jwt_token = login_response.access_token,
                                        !.jwt_token_expires = Some(done + timedelta_minutes(25)),
                                        !.call = LoginCall("login", login_response.access_token, "")],
                   now |-> done]

\* get_auth_headers (app.py:163-171)
get_auth_headers(call) ==
    IF call.token /= None THEN [Authorization |-> Some(<<"Bearer", call.token[1]>>)]
    ELSE [Authorization |-> None]

\* --- SpecFrontend: the Flask app asking for its token as time passes ------

NapTicks == timedelta_minutes(5)

FrontendCredentials ==
    { [JWT_USERNAME |-> None, JWT_PASSWORD |-> None],
      [JWT_USERNAME |-> Some("alice"), JWT_PASSWORD |-> Some("password123")],
      [JWT_USERNAME |-> Some("alice"), JWT_PASSWORD |-> Some("wrong")] }

FrontendElsewhere ==
    <<config, mint, issued, request, response, decoded, startup, inflight,
      cloudflare, entra, gateway, subnet>>

\* ticks since the last multiple of five minutes, -1 just before one
SinceNap(t) == ((t + 1) % NapTicks) - 1

GetJwtToken ==
    /\ token_cache.call.kind = "none"
    /\ \E reachable \in BOOLEAN, d1 \in 0..MaxLatency, d2 \in 0..MaxLatency :
         LET done == get_jwt_token(token_cache, now, reachable, d1, d2)
         IN  /\ SinceNap(now) + d1 + d2 <= MaxLatency
             /\ token_cache' = done.cache
             /\ now' = done.now
    /\ UNCHANGED FrontendElsewhere

\* the caller has used what get_jwt_token returned or raised
Consume ==
    /\ token_cache.call.kind /= "none"
    /\ token_cache' = [token_cache EXCEPT !.call = NoLogin]
    /\ UNCHANGED <<now, FrontendElsewhere>>

\* five minutes pass, or one tick less
Nap ==
    /\ token_cache.call.kind = "none"
    /\ now \div NapTicks < MaxNaps
    /\ \E early \in {0, 1} :
         /\ early = 1 => now % NapTicks = 0
         /\ now' = now + NapTicks - early
    /\ UNCHANGED <<token_cache, FrontendElsewhere>>

InitFrontend ==
    /\ environ = NoEnviron
    /\ process = Running
    /\ inflight = [i \in Slots |-> IdleSlot]
    /\ cloudflare = NotLoaded
    /\ entra = FreshBrowser
    /\ \E c \in FrontendCredentials :
         token_cache = [ColdCache EXCEPT !.JWT_USERNAME = c.JWT_USERNAME,
                                         !.JWT_PASSWORD = c.JWT_PASSWORD]
    /\ gateway = GatewayIdle
    /\ subnet = NoSubnet
    /\ variant = "function"
    /\ auth_method = "jwt"
    /\ api_keys = << >>
    /\ allowed_hosts = << >>
    /\ secret_key = "test-secret-key-minimum-32-chars-long"
    /\ algorithm = "HS256"
    /\ expire_minutes = 30
    /\ test_users = TestUsers
    /\ now = 0
    /\ mint = IdleMint
    /\ issued = {}
    /\ request = NoRequest
    /\ response = NoResponse
    /\ decoded = NoDecode

NextFrontend == GetJwtToken \/ Consume \/ Nap

SpecFrontend == InitFrontend /\ [][NextFrontend]_vars

\* ------------------------------------------------------------------ claim C28
Configured(tc) ==
    /\ tc.JWT_USERNAME \notin {None, Some("")}
    /\ tc.JWT_PASSWORD \notin {None, Some("")}

FreshAt(tc, t) ==
    /\ tc.jwt_token /= None
    /\ tc.jwt_token_expires /= None
    /\ t < tc.jwt_token_expires[1]

AcceptedByApi(token, t) ==
    jwt_decode(<<Tk(token)>>, secret_key, {algorithm}, t).exc = ""

C28_Returned ==
    token_cache.call.token /= None => AcceptedByApi(token_cache.call.token[1], now)

C28_CallStep ==
    (token_cache.call.kind = "none" /\ token_cache'.call.kind /= "none"
        /\ Configured(token_cache)) =>
        /\ token_cache'.call.kind \in {"login", "failed"} <=> ~FreshAt(token_cache, now)
        /\ token_cache'.call.kind = "cached" <=> FreshAt(token_cache, now)
        /\ token_cache'.call.kind = "cached" =>
             /\ token_cache'.call.token = token_cache.jwt_token
             /\ token_cache'.jwt_token = token_cache.jwt_token
             /\ token_cache'.jwt_token_expires = token_cache.jwt_token_expires
             /\ now' = now
        /\ token_cache'.call.kind = "login" =>
             /\ token_cache'.call.token = token_cache'.jwt_token
             /\ token_cache'.jwt_token /= None
             /\ token_cache'.jwt_token_expires = Some(now' + timedelta_minutes(25))
        /\ token_cache'.call.kind = "failed" =>
             /\ token_cache'.jwt_token = None
             /\ token_cache'.jwt_token_expires = None
             /\ token_cache'.call.error /= ""
             /\ token_cache'.call.token = None

\* C28: get_jwt_token logs in only when no token is cached or the cached
\* token's local expiry, 25 minutes after it was obtained, has passed, and
\* otherwise returns the cached token; a failed login clears the cached token
\* and expiry and raises; with the API's lifetime of 30 minutes every token
\* returned is unexpired at the API when it is returned.
C28_TokenCache == [](C28_Returned) /\ [][C28_CallStep]_vars

\* A token returned from the cache 25 minutes less one tick after it was
\* obtained, which the API still accepts.
C28_Witness ==
    /\ token_cache.call.kind = "cached"
    /\ now + 1 = token_cache.jwt_token_expires[1]
    /\ AcceptedByApi(token_cache.call.token[1], now)

\* ---------------------------------------------------------------------------
\* APIM simulator (api-apim-simulator/app/main.py)
\* ---------------------------------------------------------------------------

OIDC_ISSUER == "http://localhost:8180/realms/subnet-calculator"
OIDC_AUDIENCE == "api-app"

HOP_BY_HOP_HEADERS ==
    {"connection", "keep-alive", "proxy-authenticate", "proxy-authorization",
     "te", "trailer", "transfer-encoding", "upgrade", "host"}

ApimRejected(status, detail) == [ok |-> FALSE, claims |-> None, status |-> status, detail |-> detail]
Authenticated(claims) == [ok |-> TRUE, claims |-> Some(claims), status |-> 0, detail |-> ""]

\* claims.get(key, default)
claims_get(claims, key, default) == IF key \in DOMAIN claims THEN claims[key] ELSE default

\* validate_subscription_key (main.py:99-109): "" when it passes
validate_subscription_key(gw, headers) ==
    IF gw.APIM_SUBSCRIPTION_KEY = "" THEN ""
    ELSE LET first == dict_get(headers, "ocp-apim-subscription-key")
             provided_key == IF first /= None /\ first /= Some("") THEN first
                             ELSE dict_get(headers, "x-ocp-apim-subscription-key")
         IN  IF provided_key = None \/ provided_key = Some("") THEN "Missing subscription key"
             ELSE IF provided_key[1] /= gw.APIM_SUBSCRIPTION_KEY THEN "Invalid subscription key"
             ELSE ""

\* jwt.decode(token, signing_key.key, algorithms=["RS256"], audience, issuer)
oidc_decode(token) ==
    /\ token.signed_by = "keycloak"
    /\ token.alg = "RS256"
    /\ ~token.expired
    /\ claims_get(token.claims, "aud", "") = OIDC_AUDIENCE
    /\ claims_get(token.claims, "iss", "") = OIDC_ISSUER

\* authenticate_request (main.py:112-143)
authenticate_request(gw, headers) ==
    IF gw.ALLOW_ANONYMOUS
    THEN Authenticated([sub |-> "anon-demo", email |-> "demo@example.com",
                        name |-> "Demo User", preferred_username |-> "demo",
                        iss |-> OIDC_ISSUER, aud |-> OIDC_AUDIENCE])
    ELSE IF validate_subscription_key(gw, headers) /= ""
    THEN ApimRejected(401, validate_subscription_key(gw, headers))
    ELSE LET auth_header == dict_get(headers, "authorization")
         IN  IF auth_header = None \/ str_lower(auth_header[1].scheme) /= "bearer"
             THEN ApimRejected(401, "Missing bearer token")
             ELSE IF ~oidc_decode(auth_header[1].token)
             THEN ApimRejected(401, "Invalid or expired access token")
             ELSE Authenticated(auth_header[1].token.claims)

\* build_upstream_headers (main.py:146-158)
build_upstream_headers(headers, claims) ==
    LET kept == [key \in {k \in DOMAIN headers : k \notin HOP_BY_HOP_HEADERS} |-> headers[key]]
        h1 == dict_set(kept, "x-apim-user-object-id", claims_get(claims, "sub", ""))
        h2 == dict_set(h1, "x-apim-user-email", claims_get(claims, "email", ""))
        h3 == dict_set(h2, "x-apim-user-name",
                       claims_get(claims, "name", claims_get(claims, "preferred_username", "")))
        h4 == dict_set(h3, "x-apim-auth-method", "oidc")
        h5 == dict_set(h4, "x-ms-client-principal", build_client_principal(claims))
    IN  dict_set(h5, "x-ms-client-principal-name", claims_get(claims, "preferred_username", ""))

\* proxy_request (main.py:172-203): what is sent upstream, and the reply
proxy_request(gw, method, headers, backend_up) ==
    IF method = "OPTIONS"
    THEN [claims |-> None, forwarded |-> None, reply |-> Reply(204, "")]
    ELSE LET auth == authenticate_request(gw, headers)
         IN  IF ~auth.ok
             THEN [claims |-> None, forwarded |-> None,
                   reply |-> Reply(auth.status, auth.detail)]
             ELSE [claims |-> auth.claims,
                   forwarded |-> Some(build_upstream_headers(headers, auth.claims[1])),
                   reply |-> IF backend_up THEN Reply(200, "upstream")
                             ELSE Reply(502, "Backend API unavailable")]

\* --- SpecGateway: client requests to /api/... ------------------------------

UserClaims ==
    [sub |-> "u-1", email |-> "user@example.com", name |-> "User",
     preferred_username |-> "user", iss |-> OIDC_ISSUER, aud |-> OIDC_AUDIENCE]

AccessToken(signed_by, alg, expired, claims) ==
    [signed_by |-> signed_by, alg |-> alg, expired |-> expired, claims |-> claims]

ClientTokens ==
    { AccessToken("keycloak", "RS256", FALSE, UserClaims),
      AccessToken("keycloak", "RS256", TRUE, UserClaims),
      AccessToken("attacker", "RS256", FALSE, [UserClaims EXCEPT !.sub = "admin"]),
      AccessToken("keycloak", "RS256", FALSE, [UserClaims EXCEPT !.aud = "other-app"]),
      AccessToken("keycloak", "RS256", FALSE, [UserClaims EXCEPT !.iss = "http://elsewhere"]) }

AuthorizationValues ==
    {None} \cup {Some([scheme |-> s, token |-> t]) : s \in {"Bearer", "bearer"}, t \in ClientTokens}
           \cup {Some([scheme |-> "Basic", token |-> AccessToken("", "", FALSE, UserClaims)])}

\* the headers a client may send, each absent or present
ClientChoices ==
    [subscription_key : {None, Some("sub-key"), Some("wrong")},
     authorization : AuthorizationValues,
     x_user_id : {None, Some("admin")},
     x_user_email : {None, Some("admin@example.com")},
     x_ms_client_principal : {None, Some(build_client_principal([UserClaims EXCEPT !.sub = "admin"]))},
     connection : {None, Some("keep-alive")}]

HeaderOf(name, c) ==
    CASE name = "ocp-apim-subscription-key" -> c.subscription_key
      [] name = "authorization" -> c.authorization
      [] name = "x-user-id" -> c.x_user_id
      [] name = "x-user-email" -> c.x_user_email
      [] name = "x-ms-client-principal" -> c.x_ms_client_principal
      [] name = "connection" -> c.connection

ClientHeaderNames ==
    {"ocp-apim-subscription-key", "authorization", "x-user-id", "x-user-email",
     "x-ms-client-principal", "connection"}

ClientHeaders(c) ==
    [name \in {n \in ClientHeaderNames : HeaderOf(n, c) /= None} |-> HeaderOf(name, c)[1]]

GatewayElsewhere == <<api, startup, inflight, cloudflare, entra, token_cache, subnet>>

Forward ==
    /\ gateway.method = ""
    /\ \E method \in {"GET", "POST", "OPTIONS"}, c \in ClientChoices, backend_up \in BOOLEAN :
         LET done == proxy_request(gateway, method, ClientHeaders(c), backend_up)
         IN  gateway' = [gateway EXCEPT !.method = method,
                                        !.headers = ClientHeaders(c),
                                        !.claims = done.claims,
                                        !.forwarded = done.forwarded,
                                        !.reply = done.reply]
    /\ UNCHANGED GatewayElsewhere

InitGateway ==
    /\ ApiAtRest
    /\ environ = NoEnviron
    /\ process = Running
    /\ inflight = [i \in Slots |-> IdleSlot]
    /\ cloudflare = NotLoaded
    /\ entra = FreshBrowser
    /\ token_cache = ColdCache
    /\ subnet = NoSubnet
    /\ \E key \in {"", "sub-key"}, anonymous \in BOOLEAN :
         gateway = [GatewayIdle EXCEPT !.APIM_SUBSCRIPTION_KEY = key,
                                       !.ALLOW_ANONYMOUS = anonymous]

\* the reply has gone back to the client
Replied ==
    /\ gateway.method /= ""
    /\ gateway' = [GatewayIdle EXCEPT !.APIM_SUBSCRIPTION_KEY = gateway.APIM_SUBSCRIPTION_KEY,
                                      !.ALLOW_ANONYMOUS = gateway.ALLOW_ANONYMOUS]
    /\ UNCHANGED GatewayElsewhere

NextGateway == Forward \/ Replied

SpecGateway == InitGateway /\ [][NextGateway]_vars

\* ------------------------------------------------------------------ claim C29
BackendIdentityHeaders == {"x-ms-client-principal", "x-user-id", "x-user-email"}

DerivedFromClaims(name, claims) ==
    IF name = "x-ms-client-principal"
    THEN {build_client_principal(claims)}
    ELSE {claims[k] : k \in DOMAIN claims}

AuthenticatedFirst(gw) ==
    \/ gw.ALLOW_ANONYMOUS
    \/ /\ gw.APIM_SUBSCRIPTION_KEY /= "" =>
            dict_get(gw.headers, "ocp-apim-subscription-key") = Some(gw.APIM_SUBSCRIPTION_KEY)
       /\ dict_get(gw.headers, "authorization") /= None
       /\ oidc_decode(gw.headers["authorization"].token)
       /\ gw.claims = Some(gw.headers["authorization"].token.claims)

\* C29: a request is forwarded to the backend only after it was authenticated
\* (subscription key when configured, then a valid bearer token) unless
\* ALLOW_ANONYMOUS is set, and on the forwarded request x-ms-client-principal,
\* X-User-ID and X-User-Email are each absent or derived from the validated
\* claims, never a value the client supplied.
C29_ForwardedIdentity ==
    gateway.forwarded /= None =>
        /\ AuthenticatedFirst(gateway)
        /\ \A name \in BackendIdentityHeaders :
             \/ name \notin DOMAIN gateway.forwarded[1]
             \/ gateway.forwarded[1][name] \in DerivedFromClaims(name, gateway.claims[1])

\* ---------------------------------------------------------------------------
\* IPv4 subnet-info (function_app.py:694-807, routers/subnets.py:69-188)
\* ---------------------------------------------------------------------------

Half == 65536

\* hi * 65536 + lo brought back to 0 <= lo < 65536 (hi is negative for a
\* negative number)
wide_normal(hi, lo) == Wide(hi + (lo \div Half), lo % Half)
wide_add(a, n) == wide_normal(a.hi, a.lo + n)
wide_plus(a, b) == wide_normal(a.hi + b.hi, a.lo + b.lo)
wide_minus(a, b) == wide_normal(a.hi - b.hi, a.lo - b.lo)
wide_le(a, b) == a.hi < b.hi \/ (a.hi = b.hi /\ a.lo <= b.lo)

\* network.num_addresses
num_addresses(prefix) ==
    IF prefix <= 16 THEN Wide(2^(16 - prefix), 0) ELSE Wide(0, 2^(32 - prefix))

\* ip_network(network_str, strict=False).network_address: host bits cleared
network_address(address, prefix) ==
    IF prefix <= 16
    THEN Wide((address.hi \div 2^(16 - prefix)) * 2^(16 - prefix), 0)
    ELSE Wide(address.hi, (address.lo \div 2^(32 - prefix)) * 2^(32 - prefix))

\* network.broadcast_address
broadcast_address(address, prefix) ==
    wide_add(wide_plus(network_address(address, prefix), num_addresses(prefix)), -1)

\* IPv4Address + int raises AddressValueError beyond 255.255.255.255
AddressValueError(a) == a.hi >= Half \/ a.hi < 0

valid_modes == {"Azure", "AWS", "OCI", "Standard"}

SubnetError(status, detail) == [NoSubnet EXCEPT !.status = status, !.detail = detail]

subnet_info(address, prefix, mode) ==
    IF mode \notin valid_modes
    THEN SubnetError(400, "Invalid mode")
    ELSE LET network == network_address(address, prefix)
             total_addresses == num_addresses(prefix)
         IN  IF prefix < 31
             THEN LET first_usable_offset ==
                          IF mode \in {"Azure", "AWS"} THEN 4
                          ELSE IF mode = "OCI" THEN 2
                          ELSE 1
                      first_usable_ip == wide_add(network, first_usable_offset)
                      last_usable_ip == wide_add(broadcast_address(address, prefix), -1)
                      reserved_at_start == first_usable_offset
                      reserved_at_end == 1
                      usable_addresses ==
                          wide_add(wide_add(total_addresses, -reserved_at_start), -reserved_at_end)
                  IN  IF AddressValueError(first_usable_ip)
                      THEN SubnetError(500, "AddressValueError")
                      ELSE [NoSubnet EXCEPT
                              !.status = 200,
                              !.network_address = network,
                              !.broadcast_address = Some(broadcast_address(address, prefix)),
                              !.prefix_length = prefix,
                              !.total_addresses = total_addresses,
                              !.usable_addresses = usable_addresses,
                              !.first_usable_ip = first_usable_ip,
                              !.last_usable_ip = last_usable_ip]
             ELSE IF prefix = 31
             THEN [NoSubnet EXCEPT
                     !.status = 200,
                     !.network_address = network,
                     !.prefix_length = prefix,
                     !.total_addresses = total_addresses,
                     !.usable_addresses = Wide(0, 2),
                     !.first_usable_ip = network,
                     !.last_usable_ip = wide_add(network, 1)]
             ELSE [NoSubnet EXCEPT
                     !.status = 200,
                     !.network_address = network,
                     !.prefix_length = prefix,
                     !.total_addresses = Wide(0, 1),
                     !.usable_addresses = Wide(0, 1),
                     !.first_usable_ip = network,
                     !.last_usable_ip = network]

\* --- SpecSubnet: POST /api/v1/ipv4/subnet-info ------------------------------

\* 0.0.0.0, 10.0.0.0, 192.168.1.77, 255.255.255.255
SubnetAddresses == {Wide(0, 0), Wide(2560, 0), Wide(49320, 333), Wide(65535, 65535)}
PrefixLengths == 0..32
SubnetModes == valid_modes \cup {"GCP"}

SubnetElsewhere == <<api, startup, inflight, cloudflare, entra, token_cache, gateway>>

SubnetInfo ==
    /\ subnet.mode = ""
    /\ \E address \in SubnetAddresses, prefix \in PrefixLengths, mode \in SubnetModes :
         subnet' = [subnet_info(address, prefix, mode) EXCEPT
                      !.address = address, !.prefix = prefix, !.mode = mode]
    /\ UNCHANGED SubnetElsewhere

InitSubnet == Started /\ ApiAtRest

\* the response has gone back to the client
SubnetAnswered ==
    /\ subnet.mode /= ""
    /\ subnet' = NoSubnet
    /\ UNCHANGED SubnetElsewhere

NextSubnet == SubnetInfo \/ SubnetAnswered

SpecSubnet == InitSubnet /\ [][NextSubnet]_vars

\* ------------------------------------------------------------------ claim C30
ReservedCount(mode) ==
    IF mode \in {"Azure", "AWS"} THEN 5 ELSE IF mode = "OCI" THEN 3 ELSE 2

LastOfNetwork(r) == wide_add(wide_plus(r.network_address, num_addresses(r.prefix)), -1)

\* C30: for every prefix length 0..32 and every mode, usable_addresses is at
\* least 0 and is the number of addresses from first_usable_ip to
\* last_usable_ip inclusive, first_usable_ip is not after last_usable_ip and
\* both lie inside the network; below /31 it is total_addresses minus the
\* mode's reserved count (5, 5, 3, 2), for /31 it is 2 and for /32 it is 1.
C30_UsableAddresses ==
    subnet.status = 200 =>
        /\ subnet.usable_addresses.hi >= 0
        /\ subnet.usable_addresses =
             wide_add(wide_minus(subnet.last_usable_ip, subnet.first_usable_ip), 1)
        /\ wide_le(subnet.first_usable_ip, subnet.last_usable_ip)
        /\ wide_le(subnet.network_address, subnet.first_usable_ip)
        /\ wide_le(subnet.last_usable_ip, LastOfNetwork(subnet))
        /\ subnet.prefix < 31 =>
             subnet.usable_addresses =
                wide_add(subnet.total_addresses, -ReservedCount(subnet.mode))
        /\ subnet.prefix = 31 => subnet.usable_addresses = Wide(0, 2)
        /\ subnet.prefix = 32 => subnet.usable_addresses = Wide(0, 1)

====
